---- MODULE Spec2Model ----
(***************************************************************************)
(* The streaming aggregator of the OpenAI adapter (openai.go,              *)
(* generateStream): one iterator run that opens a chat-completion stream,  *)
(* receives chunks, yields partial responses for text deltas, aggregates   *)
(* tool-call fragments by index and yields one final response.             *)
(*                                                                         *)
(* Strings that the code concatenates (tool-call argument text) are        *)
(* sequences of JSON tokens; other strings are TLA+ strings, "" being the  *)
(* empty Go string.  A nil pointer is a record whose present/hasIndex      *)
(* flag is FALSE.                                                          *)
(***************************************************************************)
EXTENDS Integers, Sequences, FiniteSets, TLC

VARIABLES
    pc,                 \* position of the iterator body: "start", "recv", "returned"
    exitPath,           \* which return statement ended the body ("" while it runs)
    streamOpened,       \* CreateChatCompletionStream returned a stream
    closeCalls,         \* number of stream.Close() calls made
    recvd,              \* the chunks stream.Recv() has returned so far, in order
    recvErr,            \* the error the last stream.Recv() returned ("" = nil)
    aggregatedParts,    \* aggregatedContent.Parts
    toolCallsMap,       \* toolCallsMap: index -> toolCallBuilder
    finishReason,       \* finishReason
    usageMetadata,      \* usageMetadata (present = FALSE is the nil pointer)
    out,                \* the (response, error) pairs passed to yield, in order
    stream,             \* the stream flag GenerateContent was called with
    llmRequest,         \* the *model.LLMRequest GenerateContent was called with
    transportCalls,     \* calls of CreateChatCompletion(Stream) made
    wireResp,           \* the responses CreateChatCompletion has returned
    convOp,             \* the conversion function under study ("" = none)
    convIn,             \* its argument
    convOut,            \* <<>> before the call, <<result>> after it
    runs,               \* per concurrent generateStream call: position, chunks, yields
    heap                \* aggregation state of the concurrent calls, by owner

\* One call of a conversion function.
convVars == <<convOp, convIn, convOut>>
\* Two concurrent generateStream calls.
pairVars == <<runs, heap>>

vars == <<pc, exitPath, streamOpened, closeCalls, recvd, recvErr,
          aggregatedParts, toolCallsMap, finishReason, usageMetadata, out,
          stream, llmRequest, transportCalls, wireResp, convVars, pairVars>>

\* Longest chunk sequence a stream delivers before it ends.
MaxChunks == 3
\* Largest tool-call index the server uses.
MaxIndex == 1

-----------------------------------------------------------------------------
(* Values *)

MaxInt32 == 2147483647

\* A non-negative Go int (64 bits) n is the pair hi, lo with n = hi * 2^31 + lo
\* and 0 <= lo <= MaxInt32.
WireInt(hi, lo) == [hi |-> hi, lo |-> lo]
SmallInt(n) == WireInt(0, n)

\* Go's int32(x) conversion of an int: keep the low 32 bits, signed.  Bit 31
\* is the lowest bit of hi.
Int32(x) ==
    IF x.hi % 2 = 0 THEN x.lo ELSE (x.lo - MaxInt32) - 1

\* genai.FinishReason constants and the zero value of the string type.
FinishReasonUnspecified == "FINISH_REASON_UNSPECIFIED"
FinishReasonStop == "STOP"
FinishReasonMaxTokens == "MAX_TOKENS"
FinishReasonSafety == "SAFETY"
ZeroFinishReason == ""

convertFinishReason_FunctionCallUnknown(reason) ==
    CASE reason = "stop" -> FinishReasonStop
      [] reason = "length" -> FinishReasonMaxTokens
      [] reason = "tool_calls" -> FinishReasonStop
      [] reason = "content_filter" -> FinishReasonSafety
      [] OTHER -> FinishReasonUnspecified

convertFinishReason(reason) ==
    CASE reason = "stop" -> FinishReasonStop
      [] reason = "length" -> FinishReasonMaxTokens
      [] reason \in {"tool_calls", "function_call"} -> FinishReasonStop
      [] reason = "content_filter" -> FinishReasonSafety
      [] OTHER -> FinishReasonUnspecified

\* *genai.GenerateContentResponseUsageMetadata and *openai.Usage; NoUsage and
\* NoWireUsage are the nil pointers.
NoUsage ==
    [present |-> FALSE, prompt |-> 0, completion |-> 0, total |-> 0, cached |-> 0]
NoWireUsage ==
    [present |-> FALSE, prompt |-> SmallInt(0), completion |-> SmallInt(0),
     total |-> SmallInt(0)]
WireUsage(p, c, t) == [present |-> TRUE, prompt |-> p, completion |-> c, total |-> t]

\* &genai.GenerateContentResponseUsageMetadata built from a chunk's usage.
UsageFromChunk(u) ==
    [present |-> TRUE,
     prompt |-> Int32(u.prompt),
     completion |-> Int32(u.completion),
     total |-> Int32(u.total),
     cached |-> 0]

-----------------------------------------------------------------------------
(* JSON argument text: a sequence of tokens.  KeyTokens are `"k":`, value  *)
(* tokens are string literals.                                             *)

LBrace == "{"
RBrace == "}"
Comma == ","
KeyTokens == {"\"location\":", "\"unit\":"}
ValueTokens == {"\"Paris\"", "\"Rome\""}

\* The Go string a key token or a string literal decodes to.
KeyName(token) == IF token = "\"location\":" THEN "location" ELSE "unit"
StringValue(token) == IF token = "\"Paris\"" THEN "Paris" ELSE "Rome"

EmptyMap == [k \in {} |-> ""]
\* The nil map[string]any, a value apart from the empty map and from every map
\* with entries.
NilMap == [k \in {"<nil map>"} |-> ""]

\* Whether s is an object body `key value (, key value)*`.
RECURSIVE ValidMembers(_)
ValidMembers(s) ==
    /\ Len(s) >= 2
    /\ s[1] \in KeyTokens
    /\ s[2] \in ValueTokens
    /\ \/ Len(s) = 2
       \/ /\ Len(s) >= 4
          /\ s[3] = Comma
          /\ ValidMembers(SubSeq(s, 4, Len(s)))

\* The members of a valid object body, as a sequence of <<key, value>> pairs.
RECURSIVE Members(_)
Members(s) ==
    IF Len(s) <= 2
    THEN <<SubSeq(s, 1, 2)>>
    ELSE <<SubSeq(s, 1, 2)>> \o Members(SubSeq(s, 4, Len(s)))

\* The value json.Unmarshal stores for the member list: a later duplicate key
\* overwrites an earlier one.
MapOfMembers(ms) ==
    LET keys == {KeyName(ms[i][1]) : i \in 1..Len(ms)}
        lastOf(k) == CHOOSE i \in 1..Len(ms) :
                        /\ KeyName(ms[i][1]) = k
                        /\ \A j \in 1..Len(ms) : KeyName(ms[j][1]) = k => j <= i
    IN  [k \in keys |-> StringValue(ms[lastOf(k)][2])]

\* (mutant) the nil map is returned for empty and for rejected text.
parseJSONArgs_NilOnFailure(argsJSON) ==
    IF argsJSON = <<>>
    THEN NilMap
    ELSE IF argsJSON = <<"null">>
    THEN NilMap
    ELSE IF Len(argsJSON) < 2
    THEN NilMap
    ELSE IF argsJSON[1] = LBrace /\ argsJSON[Len(argsJSON)] = RBrace
            /\ ValidMembers(SubSeq(argsJSON, 2, Len(argsJSON) - 1))
    THEN MapOfMembers(Members(SubSeq(argsJSON, 2, Len(argsJSON) - 1)))
    ELSE NilMap

parseJSONArgs(argsJSON) ==
    IF argsJSON = <<>>
    THEN EmptyMap
    ELSE IF argsJSON = <<"null">>
    THEN NilMap                              \* Unmarshal leaves args nil, no error
    ELSE IF Len(argsJSON) < 2 \/ argsJSON[1] # LBrace \/ argsJSON[Len(argsJSON)] # RBrace
         THEN EmptyMap                       \* Unmarshal failed
         ELSE IF Len(argsJSON) = 2
              THEN EmptyMap                  \* the object {}
              ELSE LET body == SubSeq(argsJSON, 2, Len(argsJSON) - 1)
                   IN  IF ValidMembers(body)
                       THEN MapOfMembers(Members(body))
                       ELSE EmptyMap         \* Unmarshal failed

-----------------------------------------------------------------------------
(* genai parts and model.LLMResponse *)

TextPart(text) ==
    [kind |-> "text", text |-> text, id |-> "", name |-> "", args |-> EmptyMap]

FunctionCallPart(builder) ==
    [kind |-> "functionCall", text |-> "",
     id |-> builder.id, name |-> builder.name, args |-> parseJSONArgs(builder.args)]

ZeroResponse ==
    [role |-> "", parts |-> <<>>, usage |-> NoUsage, finishReason |-> ZeroFinishReason,
     partial |-> FALSE, turnComplete |-> FALSE]

\* The partial response yielded for one text delta.
PartialResponse(parts) ==
    [role |-> "model", parts |-> parts, usage |-> NoUsage, finishReason |-> ZeroFinishReason,
     partial |-> TRUE, turnComplete |-> FALSE]

\* (mutant) the final response is not marked as completing the turn.
FinalResponse_NotComplete(parts, usage, reason) ==
    [role |-> "model", parts |-> parts, usage |-> usage, finishReason |-> reason,
     partial |-> FALSE, turnComplete |-> FALSE]

\* The final response yielded at end of stream.
FinalResponse(parts, usage, reason) ==
    [role |-> "model", parts |-> parts, usage |-> usage, finishReason |-> reason,
     partial |-> FALSE, turnComplete |-> TRUE]

\* (mutant) the error is replaced by a generic one.
YieldErr_Generic(err) ==
    [isNil |-> TRUE,
     resp |-> [role |-> "", parts |-> <<>>, usage |-> NoUsage, finishReason |-> "",
               partial |-> FALSE, turnComplete |-> FALSE],
     err |-> "stream failed"]

\* One call of yield(resp, err).
YieldResp(resp) == [isNil |-> FALSE, resp |-> resp, err |-> ""]
YieldErr(err) == [isNil |-> TRUE, resp |-> ZeroResponse, err |-> err]

-----------------------------------------------------------------------------
(* Wire chunks: openai.ChatCompletionStreamResponse *)

\* One element of choice.Delta.ToolCalls; hasIndex = FALSE is a nil Index.
Fragment(hasIndex, index, id, name, args) ==
    [hasIndex |-> hasIndex, index |-> index, id |-> id, name |-> name, args |-> args]

Choice(content, toolCalls, reason) ==
    [content |-> content, toolCalls |-> toolCalls, finishReason |-> reason]

Chunk(choices, usage) == [choices |-> choices, usage |-> usage]

Indices == 0..MaxIndex

CallID(i) == IF i = 0 THEN "call_123" ELSE IF i = 1 THEN "call_456" ELSE "call_789"

\* The argument value of tool call i.
City(i) == IF i = 0 THEN "\"Paris\"" ELSE "\"Rome\""

\* The first fragment of tool call i: id, name and the start of the arguments.
OpenFragment(i) ==
    Fragment(TRUE, i, CallID(i), "get_weather", <<LBrace, "\"location\":">>)
\* Later fragments of tool call i: only more argument text.
ValueFragment(i) == Fragment(TRUE, i, "", "", <<City(i)>>)
CloseFragment(i) == Fragment(TRUE, i, "", "", <<RBrace>>)
\* A fragment without Index that renames the call and replaces its id.
NoIndexFragment == Fragment(FALSE, 0, "call_new", "get_time", <<>>)

ToolChunks ==
    {Chunk(<<Choice("", <<f>>, "")>>, NoWireUsage) :
        f \in {OpenFragment(i) : i \in Indices}
              \cup {ValueFragment(i) : i \in Indices}
              \cup {CloseFragment(i) : i \in Indices}}
    \cup {Chunk(<<Choice("", <<NoIndexFragment>>, "tool_calls")>>, NoWireUsage),
          \* text and several fragments in one delta
          Chunk(<<Choice("Calling",
                         <<OpenFragment(MaxIndex), OpenFragment(0), ValueFragment(0)>>,
                         "")>>,
                NoWireUsage)}

TextChunks ==
    {Chunk(<<Choice("Hel", <<>>, "")>>, NoWireUsage),
     Chunk(<<Choice("lo", <<>>, "stop")>>, WireUsage(SmallInt(10), SmallInt(8), SmallInt(18))),
     \* two choices: only the first one is read
     Chunk(<<Choice("", <<>>, "length"), Choice("zz", <<OpenFragment(0)>>, "stop")>>,
           WireUsage(WireInt(1, 0), SmallInt(1), WireInt(1, 1))),
     \* no choices, usage only
     Chunk(<<>>, WireUsage(SmallInt(7), SmallInt(5), SmallInt(12)))}

Chunks == TextChunks \cup ToolChunks

\* Errors stream.Recv() returns; errors.Is(err, io.EOF) holds of the first two.
EOFErrors == {"EOF", "wrapped: EOF"}
OtherErrors == {"connection reset"}
IsEOF(err) == err \in EOFErrors

-----------------------------------------------------------------------------
(* The aggregation of one chunk *)

\* idx of a fragment: *toolCall.Index, 0 when Index is nil.
FragmentIndex(toolCall) == IF toolCall.hasIndex THEN toolCall.index ELSE 0

\* (mutant) id and name are copied from every fragment, empty or not.
ApplyFragment_OverwriteEmpty(map, toolCall) ==
    LET idx == IF toolCall.hasIndex THEN toolCall.index ELSE 0
        builder == IF idx \in DOMAIN map
                   THEN map[idx]
                   ELSE [id |-> toolCall.id, name |-> toolCall.name, args |-> <<>>]
        updated == [id |-> toolCall.id,
                    name |-> toolCall.name,
                    args |-> builder.args \o toolCall.args]
    IN  [k \in DOMAIN map \cup {idx} |-> IF k = idx THEN updated ELSE map[k]]

\* (mutant) the argument text is assigned instead of appended.
ApplyFragment_AssignArgs(map, toolCall) ==
    LET idx == IF toolCall.hasIndex THEN toolCall.index ELSE 0
        builder == IF idx \in DOMAIN map
                   THEN map[idx]
                   ELSE [id |-> toolCall.id, name |-> toolCall.name, args |-> <<>>]
        updated == [id |-> IF toolCall.id # "" THEN toolCall.id ELSE builder.id,
                    name |-> IF toolCall.name # "" THEN toolCall.name ELSE builder.name,
                    args |-> IF toolCall.args # <<>> THEN toolCall.args ELSE builder.args]
    IN  [k \in DOMAIN map \cup {idx} |-> IF k = idx THEN updated ELSE map[k]]

\* One iteration of the loop over choice.Delta.ToolCalls.
ApplyFragment(map, toolCall) ==
    LET idx == FragmentIndex(toolCall)
        builder == IF idx \in DOMAIN map
                   THEN map[idx]
                   ELSE [id |-> toolCall.id, name |-> toolCall.name, args |-> <<>>]
        updated == [id |-> IF toolCall.id # "" THEN toolCall.id ELSE builder.id,
                    name |-> IF toolCall.name # "" THEN toolCall.name ELSE builder.name,
                    args |-> IF toolCall.args # <<>>
                             THEN builder.args \o toolCall.args
                             ELSE builder.args]
    IN  [k \in DOMAIN map \cup {idx} |-> IF k = idx THEN updated ELSE map[k]]

\* The whole loop over choice.Delta.ToolCalls, first fragment first.
RECURSIVE ApplyFragments(_, _)
ApplyFragments(map, toolCalls) ==
    IF toolCalls = <<>>
    THEN map
    ELSE ApplyFragments(ApplyFragment(map, Head(toolCalls)), Tail(toolCalls))

\* finishReason after a choice.
NextFinishReason(current, choice) ==
    IF choice.finishReason # "" THEN convertFinishReason(choice.finishReason) ELSE current

\* (mutant) the first usage seen is kept.
NextUsage_KeepFirst(current, chunk) ==
    IF current.present
    THEN current
    ELSE IF chunk.usage.present THEN UsageFromChunk(chunk.usage) ELSE current

\* usageMetadata after a chunk that has choices.
NextUsage(current, chunk) ==
    IF chunk.usage.present THEN UsageFromChunk(chunk.usage) ELSE current

-----------------------------------------------------------------------------
(* End of stream: the tool calls become parts, sorted by index *)

\* The inner loop of the bubble sort, j = from .. limit-1 (0-based positions
\* from-1 .. limit-2 of the code).
RECURSIVE BubblePass(_, _, _)
BubblePass(indices, j, limit) ==
    IF j >= limit
    THEN indices
    ELSE IF indices[j] > indices[j + 1]
         THEN BubblePass([indices EXCEPT ![j] = indices[j + 1], ![j + 1] = indices[j]],
                         j + 1, limit)
         ELSE BubblePass(indices, j + 1, limit)

\* The outer loop: pass i (0-based) compares positions 0 .. len-i-2.
RECURSIVE BubbleSortFrom(_, _)
BubbleSortFrom(indices, i) ==
    IF i >= Len(indices) - 1
    THEN indices
    ELSE BubbleSortFrom(BubblePass(indices, 1, Len(indices) - i), i + 1)

\* (mutant) the indices are used in the order the map yielded them.
BubbleSort_MapOrder(indices) == indices

BubbleSort(indices) == BubbleSortFrom(indices, 0)

\* The orders in which `for idx := range toolCallsMap` may visit the keys.
KeyOrders(map) ==
    {order \in [1..Cardinality(DOMAIN map) -> DOMAIN map] :
        \A i, j \in DOMAIN order : i # j => order[i] # order[j]}

\* The function-call parts appended for the sorted indices.
ToolCallParts(map, indices) ==
    [i \in 1..Len(indices) |-> FunctionCallPart(map[indices[i]])]

\* aggregatedContent.Parts after the conversion of the tool calls, the keys
\* having been collected in the given order.
FinalParts(parts, map, order) ==
    IF Cardinality(DOMAIN map) > 0
    THEN parts \o ToolCallParts(map, BubbleSort(order))
    ELSE parts

-----------------------------------------------------------------------------
(* json.Marshal of a map[string]any *)

\* A value json.Marshal rejects (a channel, a func, NaN).
Unsupported == "<chan>"

KeyToken(key) == IF key = "location" THEN "\"location\":" ELSE "\"unit\":"
ValueToken(value) == IF value = "Paris" THEN "\"Paris\"" ELSE "\"Rome\""

\* The keys json.Marshal may meet, in the sorted order it writes them.
SortedKeys == <<"location", "unit">>

MarshalFails(m) == m # NilMap /\ \E k \in DOMAIN m : m[k] = Unsupported

\* `key value , key value ...` for the given keys of m.
RECURSIVE MarshalMembers(_, _)
MarshalMembers(m, keys) ==
    IF keys = <<>>
    THEN <<>>
    ELSE <<KeyToken(Head(keys)), ValueToken(m[Head(keys)])>>
         \o (IF Len(keys) > 1 THEN <<Comma>> ELSE <<>>)
         \o MarshalMembers(m, Tail(keys))

\* The JSON text of a map json.Marshal accepts.
Marshal(m) ==
    IF m = NilMap
    THEN <<"null">>
    ELSE <<LBrace>>
         \o MarshalMembers(m, SelectSeq(SortedKeys, LAMBDA k : k \in DOMAIN m))
         \o <<RBrace>>

-----------------------------------------------------------------------------
(* Request side: genai.Content to openai.ChatCompletionMessage *)

\* Longest part list of a content.
MaxParts == 2

\* A Go string copied into a wire field, as the sequence of its pieces ("" is
\* the empty sequence), so that strings can be joined.
Str(text) == IF text = "" THEN <<>> ELSE <<text>>

NoFunctionCall == [present |-> FALSE, id |-> "", name |-> "", args |-> NilMap]
NoFunctionResponse == [present |-> FALSE, id |-> "", name |-> "", response |-> NilMap]
NoBlob == [present |-> FALSE, mimeType |-> "", data |-> ""]

\* *genai.Part
ReqPart(text, call, response, blob, file) ==
    [text |-> text, functionCall |-> call, functionResponse |-> response,
     inlineData |-> blob, fileData |-> file]

TextReqPart(text) == ReqPart(text, NoFunctionCall, NoFunctionResponse, NoBlob, FALSE)
CallReqPart(id, name, args) ==
    ReqPart("", [present |-> TRUE, id |-> id, name |-> name, args |-> args],
            NoFunctionResponse, NoBlob, FALSE)
ResponseReqPart(id, name, response) ==
    ReqPart("", NoFunctionCall,
            [present |-> TRUE, id |-> id, name |-> name, response |-> response],
            NoBlob, FALSE)
BlobReqPart(mimeType, data) ==
    ReqPart("", NoFunctionCall, NoFunctionResponse,
            [present |-> TRUE, mimeType |-> mimeType, data |-> data], FALSE)
FileReqPart == ReqPart("", NoFunctionCall, NoFunctionResponse, NoBlob, TRUE)

\* *genai.Content
Content(role, parts) == [role |-> role, parts |-> parts]

convertRoleToOpenAI(role) ==
    CASE role = "user" -> "user"
      [] role = "model" -> "assistant"
      [] role = "system" -> "system"
      [] OTHER -> "user"

\* base64.StdEncoding.EncodeToString of the blobs used.
Base64(data) == IF data = "fake_image_data" THEN "ZmFrZV9pbWFnZV9kYXRh" ELSE ""

\* openai.ChatCompletionMessage
ZeroMessage ==
    [role |-> "", content |-> <<>>, toolCallID |-> "", toolCalls |-> <<>>,
     multiContent |-> <<>>]

\* openai.ChatMessagePart
TextMessagePart(text) == [type |-> "text", text |-> text, url |-> <<>>, detail |-> ""]
ImageMessagePart(blob) ==
    [type |-> "image_url", text |-> "",
     url |-> <<"data:", blob.mimeType, ";base64,", Base64(blob.data)>>,
     detail |-> "auto"]

\* openai.ToolCall built from a function-call part.
WireToolCall(call) ==
    [id |-> call.id, type |-> "function", name |-> call.name,
     arguments |-> Marshal(call.args)]

\* (mutant) the role of the content is kept for a function response.
\* SetFunctionResponse, keeping the fields an earlier function response set.
SetFunctionResponse_FirstWins(msg, response) ==
    IF msg.toolCallID # ""
    THEN msg
    ELSE [msg EXCEPT !.role = "tool",
                     !.content = Marshal(response.response),
                     !.toolCallID = response.id]

SetFunctionResponse_KeepRole(msg, response) ==
    [msg EXCEPT !.content = Marshal(response.response), !.toolCallID = response.id]

\* Lines 343-345: a function response makes the message a tool message.
SetFunctionResponse(msg, response) ==
    [msg EXCEPT !.role = "tool",
                !.content = Marshal(response.response),
                !.toolCallID = response.id]

\* Lines 311-319 of the loop body: the text of the part.
TextStep(acc, part, nParts) ==
    IF part.text = ""
    THEN acc
    ELSE IF nParts = 1
         THEN [acc EXCEPT !.textContent = Str(part.text)]
         ELSE [acc EXCEPT !.multiContent = Append(@, TextMessagePart(part.text))]

\* Lines 321-335: the function call of the part.
CallStep(acc, part) ==
    IF acc.err # "" \/ ~part.functionCall.present
    THEN acc
    ELSE IF MarshalFails(part.functionCall.args)
         THEN [acc EXCEPT !.err = "failed to marshal function args"]
         ELSE [acc EXCEPT !.toolCalls = Append(@, WireToolCall(part.functionCall))]

\* Lines 337-346: the function response of the part.
ResponseStep(acc, part) ==
    IF acc.err # "" \/ ~part.functionResponse.present
    THEN acc
    ELSE IF MarshalFails(part.functionResponse.response)
         THEN [acc EXCEPT !.err = "failed to marshal function response"]
         ELSE [acc EXCEPT !.msg = SetFunctionResponse(@, part.functionResponse)]

\* Lines 348-358: the inline data of the part.
BlobStep(acc, part) ==
    IF acc.err # "" \/ ~part.inlineData.present
    THEN acc
    ELSE [acc EXCEPT !.multiContent = Append(@, ImageMessagePart(part.inlineData))]

\* One iteration of the loop over content.Parts; acc.err # "" is the early
\* return with an error.
MessagePartStep(acc, part, nParts) ==
    BlobStep(ResponseStep(CallStep(TextStep(acc, part, nParts), part), part), part)

\* The loop over content.Parts from part i on.
RECURSIVE MessageLoop(_, _, _)
MessageLoop(acc, parts, i) ==
    IF i > Len(parts)
    THEN acc
    ELSE MessageLoop(MessagePartStep(acc, parts[i], Len(parts)), parts, i + 1)

\* Lines 367-376: the fields set after the loop.
FinishMessage(acc) ==
    [acc.msg EXCEPT
        !.multiContent = IF Len(acc.multiContent) > 0 THEN acc.multiContent ELSE @,
        !.content = IF Len(acc.multiContent) = 0 /\ acc.textContent # <<>>
                    THEN acc.textContent
                    ELSE @,
        !.toolCalls = IF Len(acc.toolCalls) > 0 THEN acc.toolCalls ELSE @]

\* The (message, error) pair toOpenAIChatCompletionMessage returns.
toOpenAIChatCompletionMessage(content) ==
    IF Len(content.parts) = 1 /\ content.parts[1].text # ""
    THEN [msg |-> [ZeroMessage EXCEPT !.role = convertRoleToOpenAI(content.role),
                                      !.content = Str(content.parts[1].text)],
          err |-> ""]
    ELSE LET acc == MessageLoop([msg |-> [ZeroMessage EXCEPT
                                             !.role = convertRoleToOpenAI(content.role)],
                                 textContent |-> <<>>, toolCalls |-> <<>>,
                                 multiContent |-> <<>>, err |-> ""],
                                content.parts, 1)
         IN  IF acc.err # ""
             THEN [msg |-> ZeroMessage, err |-> acc.err]
             ELSE [msg |-> FinishMessage(acc), err |-> ""]

-----------------------------------------------------------------------------
(* Request side: tools and the request *)

\* Longest contents list of a request, longest tool list, and most function
\* declarations of a tool.
MaxContents == 2
MaxTools == 2
MaxDecls == 2

\* *genai.FunctionDeclaration and *genai.Tool; isNil marks the nil pointer.
NilDecl == [isNil |-> TRUE, name |-> "", description |-> "", parameters |-> ""]
Decl(name, description, parameters) ==
    [isNil |-> FALSE, name |-> name, description |-> description,
     parameters |-> parameters]
NilTool == [isNil |-> TRUE, decls |-> <<>>]
Tool(decls) == [isNil |-> FALSE, decls |-> decls]

\* openai.Tool built from one function declaration.
WireTool(funcDecl) ==
    [type |-> "function", name |-> funcDecl.name,
     description |-> funcDecl.description, parameters |-> funcDecl.parameters]

\* (mutant) only the first declaration of a tool is converted.
DeclsToConvert_FirstOnly(genaiTool) ==
    IF genaiTool.isNil THEN <<>> ELSE SubSeq(genaiTool.decls, 1, 1)

\* The declarations the inner loop of convertTools ranges over: none for a
\* nil tool.
DeclsToConvert(genaiTool) ==
    IF genaiTool.isNil THEN <<>> ELSE genaiTool.decls

\* The inner loop over declarations, from declaration j on.
RECURSIVE ConvertDecls(_, _, _)
ConvertDecls(acc, decls, j) ==
    IF acc.panicked \/ j > Len(decls)
    THEN acc
    ELSE IF decls[j].isNil
         THEN [acc EXCEPT !.panicked = TRUE]
         ELSE ConvertDecls([acc EXCEPT !.tools = Append(@, WireTool(decls[j]))],
                           decls, j + 1)

\* The outer loop over tools, from tool i on.
RECURSIVE ConvertToolsFrom(_, _, _)
ConvertToolsFrom(acc, genaiTools, i) ==
    IF acc.panicked \/ i > Len(genaiTools)
    THEN acc
    ELSE ConvertToolsFrom(ConvertDecls(acc, DeclsToConvert(genaiTools[i]), 1),
                          genaiTools, i + 1)

\* What convertTools does: it returns (tools, nil), or panics (panicked, and
\* then nothing is returned).
convertTools(genaiTools) ==
    LET acc == ConvertToolsFrom([tools |-> <<>>, err |-> "", panicked |-> FALSE],
                                genaiTools, 1)
    IN  IF acc.panicked THEN [acc EXCEPT !.tools = <<>>] ELSE acc

\* The texts of a slice joined by "\n".
RECURSIVE joinTexts(_)
joinTexts(texts) ==
    IF Len(texts) = 0
    THEN <<>>
    ELSE IF Len(texts) = 1
         THEN Str(texts[1])
         ELSE Str(texts[1]) \o <<"\n">> \o joinTexts(Tail(texts))

\* The non-empty texts of the parts, in order.
RECURSIVE NonEmptyTexts(_)
NonEmptyTexts(parts) ==
    IF parts = <<>>
    THEN <<>>
    ELSE (IF Head(parts).text # "" THEN <<Head(parts).text>> ELSE <<>>)
         \o NonEmptyTexts(Tail(parts))

NoInstruction == [present |-> FALSE, role |-> "", parts |-> <<>>]
Instruction(parts) == [present |-> TRUE, role |-> "system", parts |-> parts]

extractTextFromContent(content) ==
    IF ~content.present THEN <<>> ELSE joinTexts(NonEmptyTexts(content.parts))

\* *genai.GenerateContentConfig; NoConfig is the nil pointer.  A nil
\* *float32 is present = FALSE.
NoFloat == [present |-> FALSE, value |-> "0"]
Float(value) == [present |-> TRUE, value |-> value]
NoConfig ==
    [present |-> FALSE, tools |-> <<>>, temperature |-> NoFloat,
     maxOutputTokens |-> 0, topP |-> NoFloat, stopSequences |-> <<>>,
     systemInstruction |-> NoInstruction, responseMIMEType |-> ""]
Config(tools, temperature, maxOutputTokens, topP, stopSequences, instruction, mime) ==
    [present |-> TRUE, tools |-> tools, temperature |-> temperature,
     maxOutputTokens |-> maxOutputTokens, topP |-> topP,
     stopSequences |-> stopSequences, systemInstruction |-> instruction,
     responseMIMEType |-> mime]

\* *model.LLMRequest
LLMRequest(contents, config) == [contents |-> contents, config |-> config]

\* openai.ChatCompletionRequest{}
ZeroRequest ==
    [model |-> "", messages |-> <<>>, tools |-> <<>>, temperature |-> "0",
     maxTokens |-> 0, topP |-> "0", stop |-> <<>>, responseFormat |-> "",
     stream |-> FALSE]

\* The name of the model the adapter was built with.
ModelName == "gpt-4o"

\* The loop over req.Contents from content i on; err # "" is the early return.
RECURSIVE ConvertContents(_, _, _)
ConvertContents(acc, contents, i) ==
    IF acc.err # "" \/ i > Len(contents)
    THEN acc
    ELSE LET r == toOpenAIChatCompletionMessage(contents[i])
         IN  IF r.err # ""
             THEN [acc EXCEPT !.err = r.err]
             ELSE ConvertContents([acc EXCEPT !.messages = Append(@, r.msg)],
                                  contents, i + 1)

\* (mutant) the system message is appended after the converted contents.
WithSystemMessage_Appended(systemMsg, openaiMessages) ==
    openaiMessages \o <<systemMsg>>

\* Line 278: the system message goes before the converted contents.
WithSystemMessage(systemMsg, openaiMessages) ==
    <<systemMsg>> \o openaiMessages

\* (mutant) the messages converted before the failing entry are returned.
FailedBuild_Partial(messages, err) ==
    [req |-> [ZeroRequest EXCEPT !.messages = messages], err |-> err]

\* Line 238: the zero request and the error of the entry that failed.
FailedBuild(messages, err) == [req |-> ZeroRequest, err |-> err]

\* Lines 243-290: the request built from the converted messages and the
\* config, for a config whose tools hold no nil declaration.
BuiltRequest(messages, cfg, modelName) ==
    [model |-> modelName,
     messages |-> IF cfg.present /\ cfg.systemInstruction.present
                  THEN WithSystemMessage(
                           [ZeroMessage EXCEPT
                                !.role = "system",
                                !.content = extractTextFromContent(cfg.systemInstruction)],
                           messages)
                  ELSE messages,
     tools |-> IF cfg.present /\ Len(cfg.tools) > 0
               THEN convertTools(cfg.tools).tools
               ELSE <<>>,
     temperature |-> IF cfg.present /\ cfg.temperature.present
                     THEN cfg.temperature.value
                     ELSE "0",
     maxTokens |-> IF cfg.present /\ cfg.maxOutputTokens > 0
                   THEN cfg.maxOutputTokens
                   ELSE 0,
     topP |-> IF cfg.present /\ cfg.topP.present THEN cfg.topP.value ELSE "0",
     stop |-> IF cfg.present /\ Len(cfg.stopSequences) > 0
              THEN cfg.stopSequences
              ELSE <<>>,
     responseFormat |-> IF cfg.present /\ cfg.responseMIMEType = "application/json"
                        THEN "json_object"
                        ELSE "",
     stream |-> FALSE]

\* The (request, error) pair toOpenAIChatCompletionRequest returns.
toOpenAIChatCompletionRequest(req, modelName) ==
    LET conv == ConvertContents([messages |-> <<>>, err |-> ""], req.contents, 1)
    IN  IF conv.err # ""
        THEN FailedBuild(conv.messages, conv.err)
        ELSE [req |-> BuiltRequest(conv.messages, req.config, modelName), err |-> ""]

-----------------------------------------------------------------------------
(* Response side: openai.ChatCompletionResponse to model.LLMResponse *)

\* Most choices of a one-shot response and most tool calls of a message.
MaxChoices == 2
MaxToolCalls == 2

\* openai.ToolCall of a response message.
RespToolCall(id, type, name, arguments) ==
    [id |-> id, type |-> type, name |-> name, arguments |-> arguments]

\* openai.ChatCompletionChoice
RespChoice(content, toolCalls, reason) ==
    [content |-> content, toolCalls |-> toolCalls, finishReason |-> reason]

\* openai.Usage by value; details is *PromptTokensDetails (present = FALSE is
\* the nil pointer).
RespUsage(p, c, t, details) ==
    [prompt |-> p, completion |-> c, total |-> t, details |-> details]

\* openai.ChatCompletionResponse
Response(choices, usage) == [choices |-> choices, usage |-> usage]

ErrNoChoicesInResponse == "no choices in OpenAI response"

\* (mutant) every tool call becomes a part, whatever its type.
IsFunctionToolCall_Any(toolCall) == toolCall.type = toolCall.type

\* Line 399: only tool calls of type "function" become parts.
IsFunctionToolCall(toolCall) == toolCall.type = "function"

\* The loop over choice.Message.ToolCalls.
RECURSIVE RespToolCallParts(_)
RespToolCallParts(toolCalls) ==
    IF toolCalls = <<>>
    THEN <<>>
    ELSE (IF IsFunctionToolCall(Head(toolCalls))
          THEN <<[kind |-> "functionCall", text |-> "",
                  id |-> Head(toolCalls).id, name |-> Head(toolCalls).name,
                  args |-> parseJSONArgs(Head(toolCalls).arguments)]>>
          ELSE <<>>)
         \o RespToolCallParts(Tail(toolCalls))

\* usageMetadata of a one-shot response.
RespUsageMetadata(usage) ==
    IF usage.total.hi > 0 \/ usage.total.lo > 0     \* TotalTokens > 0
    THEN [present |-> TRUE,
          prompt |-> Int32(usage.prompt),
          completion |-> Int32(usage.completion),
          total |-> Int32(usage.total),
          cached |-> IF usage.details.present
                     THEN Int32(usage.details.cachedTokens)
                     ELSE 0]
    ELSE NoUsage

\* (mutant) the response is marked as partial.
ConvertedResponse_Partial(parts, usage, reason) ==
    [role |-> "model", parts |-> parts, usage |-> usage, finishReason |-> reason,
     partial |-> TRUE, turnComplete |-> TRUE]

\* Lines 423-428: the response built from the first choice.
ConvertedResponse(parts, usage, reason) ==
    [role |-> "model", parts |-> parts, usage |-> usage, finishReason |-> reason,
     partial |-> FALSE, turnComplete |-> TRUE]

\* (mutant) a response without choices is converted to an empty response.
convertChatCompletionResponse_NoCheck(resp) ==
    IF Len(resp.choices) = 0
    THEN [isNil |-> FALSE,
          resp |-> ConvertedResponse(<<>>, NoUsage, FinishReasonUnspecified),
          err |-> ""]
    ELSE [isNil |-> FALSE,
          resp |-> ConvertedResponse(
                       (IF resp.choices[1].content # ""
                        THEN <<TextPart(resp.choices[1].content)>>
                        ELSE <<>>)
                       \o RespToolCallParts(resp.choices[1].toolCalls),
                       RespUsageMetadata(resp.usage),
                       convertFinishReason(resp.choices[1].finishReason)),
          err |-> ""]

\* The (response, error) pair convertChatCompletionResponse returns; isNil
\* marks the nil response.
convertChatCompletionResponse(resp) ==
    IF Len(resp.choices) = 0
    THEN [isNil |-> TRUE, resp |-> ZeroResponse, err |-> ErrNoChoicesInResponse]
    ELSE LET choice == resp.choices[1]
             textParts == IF choice.content # ""
                          THEN <<TextPart(choice.content)>>
                          ELSE <<>>
         IN  [isNil |-> FALSE,
              resp |-> ConvertedResponse(
                           textParts \o RespToolCallParts(choice.toolCalls),
                           RespUsageMetadata(resp.usage),
                           convertFinishReason(choice.finishReason)),
              err |-> ""]

-----------------------------------------------------------------------------
(* The inputs the conversions and GenerateContent are run on *)

GoodArgs == [k \in {"location"} |-> "Paris"]
TwoKeyArgs ==
    [k \in {"location", "unit"} |-> IF k = "location" THEN "Rome" ELSE "Paris"]
BadArgs == [k \in {"location"} |-> Unsupported]

\* The parts contents are built from: texts, the empty part, function calls,
\* function responses, an image and a file reference.
ReqParts ==
    {TextReqPart("Hello"), TextReqPart("world"), TextReqPart(""),
     CallReqPart("call_123", "get_weather", GoodArgs),
     CallReqPart("call_124", "get_time", NilMap),
     CallReqPart("call_9", "get_weather", BadArgs),
     ResponseReqPart("call_123", "get_weather", GoodArgs),
     ResponseReqPart("call_456", "get_weather", TwoKeyArgs),
     ResponseReqPart("call_9", "get_weather", BadArgs),
     ResponseReqPart("call_124", "get_time", NilMap),
     ResponseReqPart("call_125", "get_time", EmptyMap),
     BlobReqPart("image/jpeg", "fake_image_data"),
     FileReqPart}

\* All sequences over S of length at most n.
SeqsUpTo(S, n) == UNION {[1..k -> S] : k \in 0..n}

\* The contents toOpenAIChatCompletionMessage is run on.
Contents ==
    {Content(role, parts) :
        role \in {"user", "model", "system", "function"},
        parts \in SeqsUpTo(ReqParts, MaxParts)}

\* The content entries of requests: three that convert and two that fail with
\* different errors.
HelloContent == Content("user", <<TextReqPart("Hello")>>)
CallContent == Content("model", <<CallReqPart("call_123", "get_weather", GoodArgs)>>)
ResultContent ==
    Content("user", <<ResponseReqPart("call_123", "get_weather", TwoKeyArgs)>>)
BadArgsContent == Content("model", <<CallReqPart("call_9", "get_weather", BadArgs)>>)
BadResponseContent ==
    Content("user", <<ResponseReqPart("call_9", "get_weather", BadArgs)>>)

WeatherDecl == Decl("get_weather", "Get the weather", "schema:location")
TimeDecl == Decl("get_time", "Get the time", "")

\* The tools convertTools is run on: nil, and with zero to MaxDecls
\* declarations, some of them nil.
Tools == {NilTool} \cup {Tool(decls) : decls \in SeqsUpTo({WeatherDecl, TimeDecl, NilDecl}, MaxDecls)}
ToolLists == SeqsUpTo(Tools, MaxTools)

Configs ==
    {NoConfig,
     Config(<<>>, NoFloat, 0, NoFloat, <<>>, NoInstruction, ""),
     Config(<<>>, NoFloat, 0, NoFloat, <<>>, Instruction(<<BlobReqPart("image/jpeg", "fake_image_data")>>), ""),
     Config(<<>>, Float("0.7"), 100, NoFloat, <<>>,
            Instruction(<<TextReqPart("You are a helpful assistant")>>), ""),
     Config(<<NilTool, Tool(<<WeatherDecl, TimeDecl>>)>>, NoFloat, 0, Float("0.9"),
            <<"END">>,
            Instruction(<<TextReqPart("Be brief"), FileReqPart, TextReqPart(""),
                          TextReqPart("Use tools")>>),
            "application/json")}

\* The requests toOpenAIChatCompletionRequest is run on.
Requests ==
    {LLMRequest(contents, config) :
        contents \in SeqsUpTo({HelloContent, CallContent, ResultContent,
                                BadArgsContent, BadResponseContent},
                               MaxContents),
        config \in Configs}

\* The requests GenerateContent is called with: every request whose build
\* fails, and one that builds.
WeatherRequest ==
    LLMRequest(<<HelloContent, CallContent>>,
               Config(<<NilTool, Tool(<<WeatherDecl, TimeDecl>>)>>, NoFloat, 0,
                      Float("0.9"), <<"END">>,
                      Instruction(<<TextReqPart("Be brief"), FileReqPart, TextReqPart(""),
                                    TextReqPart("Use tools")>>),
                      "application/json"))
DispatchRequests ==
    {r \in Requests : toOpenAIChatCompletionRequest(r, ModelName).err # ""}
    \cup {WeatherRequest}

\* Argument texts of response tool calls: well-formed, empty, null, and three
\* that json.Unmarshal rejects.
GoodArguments == <<LBrace, "\"location\":", "\"Paris\"", RBrace>>
RespToolCalls ==
    {RespToolCall("call_1", "function", "get_weather", GoodArguments),
     RespToolCall("call_2", "function", "get_time", <<>>),
     RespToolCall("call_3", "function", "get_time", <<"null">>),
     RespToolCall("call_4", "custom", "grammar_tool", GoodArguments)}
    \cup {RespToolCall("call_5", "function", "get_weather", a) :
             a \in {<<LBrace, "\"location\":">>, <<"\"Paris\"">>,
                    <<LBrace, "\"Paris\"", RBrace>>}}

\* The first choices of responses.
FirstChoices ==
    {RespChoice(content, toolCalls, reason) :
        content \in {"", "Hello"},
        toolCalls \in SeqsUpTo(RespToolCalls, MaxToolCalls),
        reason \in {"stop", "tool_calls"}}

\* The responses convertChatCompletionResponse is run on and
\* CreateChatCompletion returns: without choices, or with a first choice and
\* up to MaxChoices - 1 later ones; without usage, with usage and cached
\* tokens, and with counts beyond 32 bits.
Responses ==
    {Response(choices, usage) :
        choices \in
            {<<>>} \cup
            {<<first>> \o rest :
                first \in FirstChoices,
                rest \in SeqsUpTo(
                    {RespChoice("Other",
                                <<RespToolCall("call_7", "function", "get_time", <<>>)>>,
                                "length"),
                     RespChoice("", <<>>, "")},
                    MaxChoices - 1)},
        usage \in
            {RespUsage(SmallInt(0), SmallInt(0), SmallInt(0),
                       [present |-> FALSE, cachedTokens |-> SmallInt(0)]),
             RespUsage(SmallInt(10), SmallInt(8), SmallInt(18),
                       [present |-> TRUE, cachedTokens |-> SmallInt(4)]),
             RespUsage(WireInt(1, 0), SmallInt(1), WireInt(1, 1),
                       [present |-> FALSE, cachedTokens |-> SmallInt(0)])}}

-----------------------------------------------------------------------------
(* The iterator body of generateStream *)

\* (mutant) the new part is put in front of the aggregate.
AppendPart_Prepend(parts, part) == <<part>> \o parts

\* aggregatedContent.Parts = append(aggregatedContent.Parts, part)
AppendPart(parts, part) == Append(parts, part)

\* (mutant) the partial response carries the whole aggregate so far.
PartialParts_Cumulative(aggregated, part) == aggregated

\* Parts of the content of the partial response: []*genai.Part{part}.
PartialParts(aggregated, part) == <<part>>

\* (mutant) Close is not deferred and not called on this return.
DeferredClose_Missing(calls) == calls

\* defer stream.Close(): runs once when the body returns.
DeferredClose(calls) == calls + 1

Init ==
    /\ pc = "start"
    /\ exitPath = ""
    /\ streamOpened = FALSE
    /\ closeCalls = 0
    /\ recvd = <<>>
    /\ recvErr = ""
    /\ aggregatedParts = <<>>
    /\ toolCallsMap = <<>>
    /\ finishReason = ZeroFinishReason
    /\ usageMetadata = NoUsage
    /\ out = <<>>
    /\ stream \in BOOLEAN
    /\ llmRequest \in DispatchRequests
    /\ transportCalls = 0
    /\ wireResp = <<>>
    /\ convOp = ""
    /\ convIn = <<>>
    /\ convOut = <<>>
    /\ runs = <<>>
    /\ heap = <<>>

\* What toOpenAIChatCompletionRequest(req, o.ModelName) returns.
Built == toOpenAIChatCompletionRequest(llmRequest, ModelName)

\* generate: toOpenAIChatCompletionRequest returns an error: yield(nil, err);
\* return.  generate ignores what yield returns.
GenerateBuildFails ==
    /\ pc = "start"
    /\ ~stream
    /\ Built.err # ""
    /\ out' = Append(out, YieldErr(Built.err))
    /\ pc' = "returned"
    /\ exitPath' = "buildErr"
    /\ UNCHANGED <<streamOpened, closeCalls, recvd, recvErr, aggregatedParts,
                   toolCallsMap, finishReason, usageMetadata>>
    /\ UNCHANGED <<stream, llmRequest, transportCalls, wireResp, convVars, pairVars>>

\* generate: CreateChatCompletion returns an error: yield(nil, err); return.
GenerateTransportFails ==
    /\ pc = "start"
    /\ ~stream
    /\ Built.err = ""
    /\ transportCalls' = transportCalls + 1
    /\ out' = Append(out, YieldErr("status 401"))
    /\ pc' = "returned"
    /\ exitPath' = "transportErr"
    /\ UNCHANGED <<streamOpened, closeCalls, recvd, recvErr, aggregatedParts,
                   toolCallsMap, finishReason, usageMetadata>>
    /\ UNCHANGED <<stream, llmRequest, wireResp, convVars, pairVars>>

\* generate: CreateChatCompletion returns a response, which is converted and
\* yielded, or whose conversion error is yielded.
GenerateResponds ==
    /\ pc = "start"
    /\ ~stream
    /\ Built.err = ""
    /\ transportCalls' = transportCalls + 1
    /\ \E resp \in Responses :
        LET llmResp == convertChatCompletionResponse(resp)
        IN  /\ wireResp' = Append(wireResp, resp)
            /\ out' = Append(out, IF llmResp.err # ""
                                  THEN YieldErr(llmResp.err)
                                  ELSE YieldResp(llmResp.resp))
            /\ exitPath' = IF llmResp.err # "" THEN "convertErr" ELSE "generated"
    /\ pc' = "returned"
    /\ UNCHANGED <<streamOpened, closeCalls, recvd, recvErr, aggregatedParts,
                   toolCallsMap, finishReason, usageMetadata>>
    /\ UNCHANGED <<stream, llmRequest, convVars, pairVars>>

\* toOpenAIChatCompletionRequest returns an error: yield(nil, err); return.
BuildRequestFails ==
    /\ pc = "start"
    /\ stream
    /\ Built.err # ""
    /\ out' = Append(out, YieldErr(Built.err))
    /\ pc' = "returned"
    /\ exitPath' = "buildErr"
    /\ UNCHANGED <<streamOpened, closeCalls, recvd, recvErr, aggregatedParts,
                   toolCallsMap, finishReason, usageMetadata>>
    /\ UNCHANGED <<stream, llmRequest, transportCalls, wireResp, convVars, pairVars>>

\* CreateChatCompletionStream returns an error: yield(nil, err); return.
OpenStreamFails ==
    /\ pc = "start"
    /\ stream
    /\ Built.err = ""
    /\ transportCalls' = transportCalls + 1
    /\ out' = Append(out, YieldErr("status 401"))
    /\ pc' = "returned"
    /\ exitPath' = "openErr"
    /\ UNCHANGED <<streamOpened, closeCalls, recvd, recvErr, aggregatedParts,
                   toolCallsMap, finishReason, usageMetadata>>
    /\ UNCHANGED <<stream, llmRequest, wireResp, convVars, pairVars>>

\* CreateChatCompletionStream succeeds; Close is deferred; the aggregation
\* state is allocated.
OpenStream ==
    /\ pc = "start"
    /\ stream
    /\ Built.err = ""
    /\ transportCalls' = transportCalls + 1
    /\ streamOpened' = TRUE
    /\ pc' = "recv"
    /\ aggregatedParts' = <<>>
    /\ toolCallsMap' = <<>>
    /\ finishReason' = ZeroFinishReason
    /\ usageMetadata' = NoUsage
    /\ UNCHANGED <<exitPath, closeCalls, recvd, recvErr, out>>
    /\ UNCHANGED <<stream, llmRequest, wireResp, convVars, pairVars>>

\* RecvChunk, reading the usage of a chunk before the empty-choices test.
RecvChunk_UsageBeforeSkip ==
    /\ pc = "recv"
    /\ Len(recvd) < MaxChunks
    /\ \E chunk \in Chunks, continue \in BOOLEAN :
        /\ recvd' = Append(recvd, chunk)
        /\ recvErr' = ""
        /\ IF chunk.choices = <<>>
           THEN /\ continue
                /\ usageMetadata' = NextUsage(usageMetadata, chunk)
                /\ UNCHANGED <<pc, exitPath, closeCalls, aggregatedParts, toolCallsMap,
                               finishReason, out>>
           ELSE LET choice == chunk.choices[1]
                    part == TextPart(choice.content)
                    parts == IF choice.content # ""
                             THEN AppendPart(aggregatedParts, part)
                             ELSE aggregatedParts
                IN  /\ choice.content = "" => continue
                    /\ aggregatedParts' = parts
                    /\ out' = IF choice.content # ""
                              THEN Append(out, YieldResp(PartialResponse(PartialParts(parts, part))))
                              ELSE out
                    /\ IF continue
                       THEN /\ toolCallsMap' = ApplyFragments(toolCallsMap, choice.toolCalls)
                            /\ finishReason' = NextFinishReason(finishReason, choice)
                            /\ usageMetadata' = NextUsage(usageMetadata, chunk)
                            /\ UNCHANGED <<pc, exitPath, closeCalls>>
                       ELSE /\ pc' = "returned"
                            /\ exitPath' = "stopped"
                            /\ closeCalls' = DeferredClose(closeCalls)
                            /\ UNCHANGED <<toolCallsMap, finishReason, usageMetadata>>
    /\ UNCHANGED <<streamOpened, stream, llmRequest, transportCalls, wireResp, convVars, pairVars>>


\* RecvChunk, going on with the iteration when yield returned false.
RecvChunk_IgnoresStop ==
    /\ pc = "recv"
    /\ Len(recvd) < MaxChunks
    /\ \E chunk \in Chunks, continue \in BOOLEAN :
        /\ recvd' = Append(recvd, chunk)
        /\ recvErr' = ""
        /\ IF chunk.choices = <<>>
           THEN /\ continue
                /\ UNCHANGED <<pc, exitPath, closeCalls, aggregatedParts, toolCallsMap,
                               finishReason, usageMetadata, out>>
           ELSE LET choice == chunk.choices[1]
                    part == TextPart(choice.content)
                    parts == IF choice.content # ""
                             THEN AppendPart(aggregatedParts, part)
                             ELSE aggregatedParts
                IN  /\ choice.content = "" => continue
                    /\ aggregatedParts' = parts
                    /\ out' = IF choice.content # ""
                              THEN Append(out, YieldResp(PartialResponse(PartialParts(parts, part))))
                              ELSE out
                    /\ IF continue
                       THEN /\ toolCallsMap' = ApplyFragments(toolCallsMap, choice.toolCalls)
                            /\ finishReason' = NextFinishReason(finishReason, choice)
                            /\ usageMetadata' = NextUsage(usageMetadata, chunk)
                            /\ UNCHANGED <<pc, exitPath, closeCalls>>
                       ELSE /\ exitPath' = "stopped"
                            /\ toolCallsMap' = ApplyFragments(toolCallsMap, choice.toolCalls)
                            /\ finishReason' = NextFinishReason(finishReason, choice)
                            /\ usageMetadata' = NextUsage(usageMetadata, chunk)
                            /\ UNCHANGED <<pc, closeCalls>>
    /\ UNCHANGED <<streamOpened, stream, llmRequest, transportCalls, wireResp, convVars, pairVars>>


\* One loop iteration in which Recv returns a chunk.  continue is what yield
\* returns for the partial response (TRUE when no partial response is made).
RecvChunk ==
    /\ pc = "recv"
    /\ Len(recvd) < MaxChunks
    /\ \E chunk \in Chunks, continue \in BOOLEAN :
        /\ recvd' = Append(recvd, chunk)
        /\ recvErr' = ""
        /\ IF chunk.choices = <<>>
           THEN /\ continue
                /\ UNCHANGED <<pc, exitPath, closeCalls, aggregatedParts, toolCallsMap,
                               finishReason, usageMetadata, out>>
           ELSE LET choice == chunk.choices[1]
                    part == TextPart(choice.content)
                    parts == IF choice.content # ""
                             THEN AppendPart(aggregatedParts, part)
                             ELSE aggregatedParts
                IN  /\ choice.content = "" => continue
                    /\ aggregatedParts' = parts
                    /\ out' = IF choice.content # ""
                              THEN Append(out, YieldResp(PartialResponse(PartialParts(parts, part))))
                              ELSE out
                    /\ IF continue
                       THEN /\ toolCallsMap' = ApplyFragments(toolCallsMap, choice.toolCalls)
                            /\ finishReason' = NextFinishReason(finishReason, choice)
                            /\ usageMetadata' = NextUsage(usageMetadata, chunk)
                            /\ UNCHANGED <<pc, exitPath, closeCalls>>
                       ELSE /\ pc' = "returned"
                            /\ exitPath' = "stopped"
                            /\ closeCalls' = DeferredClose(closeCalls)
                            /\ UNCHANGED <<toolCallsMap, finishReason, usageMetadata>>
    /\ UNCHANGED <<streamOpened, stream, llmRequest, transportCalls, wireResp, convVars, pairVars>>

\* Recv returns io.EOF (possibly wrapped): the tool calls become parts and the
\* final response is yielded.
RecvEOF ==
    /\ pc = "recv"
    /\ \E err \in EOFErrors, order \in KeyOrders(toolCallsMap) :
        /\ recvErr' = err
        /\ aggregatedParts' = FinalParts(aggregatedParts, toolCallsMap, order)
        /\ out' = Append(out, YieldResp(FinalResponse(aggregatedParts', usageMetadata,
                                                      finishReason)))
    /\ pc' = "returned"
    /\ exitPath' = "eof"
    /\ closeCalls' = DeferredClose(closeCalls)
    /\ UNCHANGED <<streamOpened, recvd, toolCallsMap, finishReason, usageMetadata>>
    /\ UNCHANGED <<stream, llmRequest, transportCalls, wireResp, convVars, pairVars>>

\* Recv returns any other error: yield(nil, err); return.
RecvError ==
    /\ pc = "recv"
    /\ \E err \in OtherErrors :
        /\ recvErr' = err
        /\ out' = Append(out, YieldErr(err))
    /\ pc' = "returned"
    /\ exitPath' = "recvErr"
    /\ closeCalls' = DeferredClose(closeCalls)
    /\ UNCHANGED <<streamOpened, recvd, aggregatedParts, toolCallsMap, finishReason,
                   usageMetadata>>
    /\ UNCHANGED <<stream, llmRequest, transportCalls, wireResp, convVars, pairVars>>

Next ==
    \/ GenerateBuildFails
    \/ GenerateTransportFails
    \/ GenerateResponds
    \/ BuildRequestFails
    \/ OpenStreamFails
    \/ OpenStream
    \/ RecvChunk
    \/ RecvEOF
    \/ RecvError

Spec == Init /\ [][Next]_vars

-----------------------------------------------------------------------------
(* One call of a conversion function on an argument drawn from its inputs *)

\* No call of GenerateContent is under way.
NoDispatch ==
    /\ pc = "start"
    /\ exitPath = ""
    /\ streamOpened = FALSE
    /\ closeCalls = 0
    /\ recvd = <<>>
    /\ recvErr = ""
    /\ aggregatedParts = <<>>
    /\ toolCallsMap = <<>>
    /\ finishReason = ZeroFinishReason
    /\ usageMetadata = NoUsage
    /\ out = <<>>
    /\ stream = FALSE
    /\ llmRequest = WeatherRequest
    /\ transportCalls = 0
    /\ wireResp = <<>>

dispatchVars ==
    <<pc, exitPath, streamOpened, closeCalls, recvd, recvErr, aggregatedParts,
      toolCallsMap, finishReason, usageMetadata, out, stream, llmRequest, transportCalls, wireResp>>

\* The finish_reason strings handed to convertFinishReason: the five the
\* switch names, the empty string, and strings it does not name (Go compares
\* strings byte by byte, so another spelling is another string).
WireFinishReasons ==
    {"stop", "length", "tool_calls", "function_call", "content_filter", "",
     "STOP", "Length", "tool_call", "null", "eos"}

InitConv ==
    /\ NoDispatch
    /\ runs = <<>>
    /\ heap = <<>>
    /\ convOut = <<>>
    /\ \/ convOp = "toOpenAIChatCompletionMessage" /\ convIn \in Contents
       \/ convOp = "toOpenAIChatCompletionRequest" /\ convIn \in Requests
       \/ convOp = "convertTools" /\ convIn \in ToolLists
       \/ convOp = "convertChatCompletionResponse" /\ convIn \in Responses
       \/ convOp = "convertFinishReason" /\ convIn \in WireFinishReasons

CallToMessage ==
    /\ convOp = "toOpenAIChatCompletionMessage"
    /\ convOut = <<>>
    /\ convOut' = <<toOpenAIChatCompletionMessage(convIn)>>
    /\ UNCHANGED <<convOp, convIn, dispatchVars, pairVars>>

\* The requests' tools hold no nil declaration.
CallToRequest ==
    /\ convOp = "toOpenAIChatCompletionRequest"
    /\ convOut = <<>>
    /\ convOut' = <<toOpenAIChatCompletionRequest(convIn, ModelName)>>
    /\ UNCHANGED <<convOp, convIn, dispatchVars, pairVars>>

CallConvertTools ==
    /\ convOp = "convertTools"
    /\ convOut = <<>>
    /\ convOut' = <<convertTools(convIn)>>
    /\ UNCHANGED <<convOp, convIn, dispatchVars, pairVars>>

CallConvertResponse ==
    /\ convOp = "convertChatCompletionResponse"
    /\ convOut = <<>>
    /\ convOut' = <<convertChatCompletionResponse(convIn)>>
    /\ UNCHANGED <<convOp, convIn, dispatchVars, pairVars>>

CallConvertFinishReason ==
    /\ convOp = "convertFinishReason"
    /\ convOut = <<>>
    /\ convOut' = <<convertFinishReason(convIn)>>
    /\ UNCHANGED <<convOp, convIn, dispatchVars, pairVars>>

NextConv ==
    \/ CallToMessage
    \/ CallToRequest
    \/ CallConvertTools
    \/ CallConvertResponse
    \/ CallConvertFinishReason

SpecConv == InitConv /\ [][NextConv]_vars

-----------------------------------------------------------------------------
(* Two generateStream calls on the same OpenAIModel, their steps interleaved *)

\* Longest chunk sequence each of the two streams delivers.
MaxPairChunks == 2

Streams == {1, 2}

\* The chunks the two streams deliver.
PairChunks ==
    {Chunk(<<Choice("Hel", <<>>, "")>>, NoWireUsage),
     Chunk(<<Choice("lo", <<>>, "stop")>>, WireUsage(SmallInt(10), SmallInt(8), SmallInt(18))),
     Chunk(<<Choice("", <<OpenFragment(0)>>, "")>>, NoWireUsage),
     Chunk(<<Choice("", <<NoIndexFragment>>, "tool_calls")>>, NoWireUsage)}

\* (mutant) the aggregation state belongs to the model and is shared by its
\* calls.
StateOwner_Shared(s) == 1

\* Lines 96-104: aggregatedContent, finishReason, usageMetadata and
\* toolCallsMap are locals of the iterator body, allocated by each call.
StateOwner(s) == s

\* Lines 96-104: the state a call starts from.
NewState ==
    [aggregatedParts |-> <<>>, toolCallsMap |-> <<>>,
     finishReason |-> ZeroFinishReason, usageMetadata |-> NoUsage]

\* The partial response yielded for a chunk, if any.
Emitted(st, chunk) ==
    IF chunk.choices # <<>> /\ chunk.choices[1].content # ""
    THEN <<YieldResp(PartialResponse(PartialParts(
               AppendPart(st.aggregatedParts, TextPart(chunk.choices[1].content)),
               TextPart(chunk.choices[1].content))))>>
    ELSE <<>>

\* The state after the text of a chunk was appended (lines 123-128).
TextAggregated(st, chunk) ==
    IF chunk.choices # <<>> /\ chunk.choices[1].content # ""
    THEN [st EXCEPT !.aggregatedParts =
                        AppendPart(@, TextPart(chunk.choices[1].content))]
    ELSE st

\* The state after one loop iteration that ran to its end (lines 113-182).
AggregateChunk(st, chunk) ==
    IF chunk.choices = <<>>
    THEN st
    ELSE [TextAggregated(st, chunk) EXCEPT
              !.toolCallsMap = ApplyFragments(@, chunk.choices[1].toolCalls),
              !.finishReason = NextFinishReason(@, chunk.choices[1]),
              !.usageMetadata = NextUsage(@, chunk)]

\* The final response built from a state (lines 185-222).
FinalOf(st, order) ==
    YieldResp(FinalResponse(FinalParts(st.aggregatedParts, st.toolCallsMap, order),
                            st.usageMetadata, st.finishReason))

InitPair ==
    /\ NoDispatch
    /\ convOp = ""
    /\ convIn = <<>>
    /\ convOut = <<>>
    /\ runs = [s \in Streams |-> [pc |-> "start", exitPath |-> "", recvd |-> <<>>,
                                  out |-> <<>>]]
    /\ heap = <<>>

\* Call s opens its stream and allocates its aggregation state.
PairOpenStream(s) ==
    /\ runs[s].pc = "start"
    /\ runs' = [runs EXCEPT ![s].pc = "recv"]
    /\ heap' = [o \in DOMAIN heap \cup {StateOwner(s)} |->
                    IF o = StateOwner(s) THEN NewState ELSE heap[o]]
    /\ UNCHANGED <<dispatchVars, convVars>>

\* One loop iteration of call s in which Recv returns a chunk.
PairRecvChunk(s) ==
    /\ runs[s].pc = "recv"
    /\ Len(runs[s].recvd) < MaxPairChunks
    /\ \E chunk \in PairChunks, continue \in BOOLEAN :
        /\ Emitted(heap[StateOwner(s)], chunk) = <<>> => continue
        /\ runs' = [runs EXCEPT
                       ![s].recvd = Append(@, chunk),
                       ![s].out = @ \o Emitted(heap[StateOwner(s)], chunk),
                       ![s].pc = IF continue THEN "recv" ELSE "returned",
                       ![s].exitPath = IF continue THEN "" ELSE "stopped"]
        /\ heap' = [heap EXCEPT ![StateOwner(s)] =
                        IF continue
                        THEN AggregateChunk(@, chunk)
                        ELSE TextAggregated(@, chunk)]
    /\ UNCHANGED <<dispatchVars, convVars>>

\* Recv of call s returns io.EOF: the final response is yielded.
PairRecvEOF(s) ==
    /\ runs[s].pc = "recv"
    /\ \E order \in KeyOrders(heap[StateOwner(s)].toolCallsMap) :
        runs' = [runs EXCEPT
                    ![s].out = Append(@, FinalOf(heap[StateOwner(s)], order)),
                    ![s].pc = "returned",
                    ![s].exitPath = "eof"]
    /\ UNCHANGED <<heap, dispatchVars, convVars>>

\* Recv of call s returns another error: yield(nil, err); return.
PairRecvError(s) ==
    /\ runs[s].pc = "recv"
    /\ \E err \in OtherErrors :
        runs' = [runs EXCEPT
                    ![s].out = Append(@, YieldErr(err)),
                    ![s].pc = "returned",
                    ![s].exitPath = "recvErr"]
    /\ UNCHANGED <<heap, dispatchVars, convVars>>

NextPair ==
    \E s \in Streams :
        \/ PairOpenStream(s)
        \/ PairRecvChunk(s)
        \/ PairRecvEOF(s)
        \/ PairRecvError(s)

SpecPair == InitPair /\ [][NextPair]_vars

-----------------------------------------------------------------------------
(* What the received chunks say, read off the history recvd *)

\* The delta text of a chunk's first choice ("" when it has no choice).
DeltaText(chunk) == IF chunk.choices = <<>> THEN "" ELSE chunk.choices[1].content

\* The non-empty delta texts of a chunk sequence, in arrival order.
RECURSIVE DeltaTexts(_)
DeltaTexts(chunks) ==
    IF chunks = <<>>
    THEN <<>>
    ELSE IF DeltaText(Head(chunks)) # ""
         THEN <<DeltaText(Head(chunks))>> \o DeltaTexts(Tail(chunks))
         ELSE DeltaTexts(Tail(chunks))

IsPartial(y) == ~y.isNil /\ y.resp.partial /\ ~y.resp.turnComplete
IsFinal(y) == ~y.isNil /\ ~y.resp.partial /\ y.resp.turnComplete

\* The yielded elements that are partial responses, in emission order.
Partials == SelectSeq(out, IsPartial)

\* The response a consumer expects for one text fragment.
ExpectedPartial(text) ==
    [isNil |-> FALSE,
     resp |-> [role |-> "model",
               parts |-> <<[kind |-> "text", text |-> text, id |-> "", name |-> "",
                            args |-> EmptyMap]>>,
               usage |-> NoUsage, finishReason |-> "",
               partial |-> TRUE, turnComplete |-> FALSE],
     err |-> ""]

EndedAtEOF == pc = "returned" /\ exitPath = "eof"

IsTextPart(part) == part.kind = "text"
IsFunctionCallPart(part) == part.kind = "functionCall"

\* The parts of the last yielded element.
LastParts == out[Len(out)].resp.parts

-----------------------------------------------------------------------------
\* C1: when the stream ends with end-of-stream and the consumer never stopped,
\* exactly one response with Partial=false and TurnComplete=true has been
\* emitted, every other emitted element is a partial response that precedes
\* it, and it is the last element emitted; in no state is a final response
\* followed by another element or emitted while the body still runs.
C1_ExactlyOneFinalLast ==
    /\ \A i \in 1..Len(out) : IsFinal(out[i]) => (i = Len(out) /\ pc = "returned")
    /\ EndedAtEOF =>
        /\ Len(out) >= 1
        /\ {i \in 1..Len(out) : IsFinal(out[i])} = {Len(out)}
        /\ \A i \in 1..(Len(out) - 1) : IsPartial(out[i])

C1_Witness ==
    /\ EndedAtEOF
    /\ Len(out) = 3
    /\ IsPartial(out[1]) /\ IsPartial(out[2]) /\ IsFinal(out[3])

\* C2: every chunk whose first choice has non-empty delta text has caused
\* exactly one partial response (Partial=true, TurnComplete=false) holding the
\* single text part of that chunk's fragment, in chunk arrival order, and the
\* other chunks have caused no emission: while the loop runs the emitted
\* sequence is exactly the per-fragment partial responses of the chunks received.
C2_OnePartialPerTextChunk ==
    LET texts == DeltaTexts(recvd)
        expected == [i \in 1..Len(texts) |-> ExpectedPartial(texts[i])]
    IN  /\ Partials = expected
        /\ pc = "recv" => out = expected

C2_Witness ==
    /\ pc = "recv"
    /\ Len(recvd) = 3
    /\ DeltaText(recvd[1]) = "Hel"
    /\ DeltaText(recvd[2]) = ""
    /\ DeltaText(recvd[3]) = "lo"
    /\ Len(out) = 2
    /\ out[2].resp.parts[1].text = "lo"

\* C3: the text parts of the final response are the non-empty delta texts of
\* the received chunks in arrival order, which is also the sequence of texts
\* the partial responses carried.
C3_FinalTextsAreFragments ==
    EndedAtEOF =>
        LET textParts == SelectSeq(LastParts, IsTextPart)
            finalTexts == [i \in 1..Len(textParts) |-> textParts[i].text]
            partialTexts == [i \in 1..Len(Partials) |-> Partials[i].resp.parts[1].text]
        IN  /\ finalTexts = DeltaTexts(recvd)
            /\ finalTexts = partialTexts

C3_Witness ==
    /\ EndedAtEOF
    /\ DeltaTexts(recvd) = <<"Hel", "Calling", "lo">>
    /\ Len(SelectSeq(LastParts, IsTextPart)) = 3

-----------------------------------------------------------------------------
(* Tool calls, read off the history recvd *)

\* The tool-call fragments of the first choices of a chunk sequence, in
\* arrival order.
RECURSIVE DeltaFragments(_)
DeltaFragments(chunks) ==
    IF chunks = <<>>
    THEN <<>>
    ELSE (IF Head(chunks).choices = <<>>
          THEN <<>>
          ELSE Head(chunks).choices[1].toolCalls) \o DeltaFragments(Tail(chunks))

\* The index a fragment is filed under: its Index, 0 when it has none.
IndexOf(fragment) == IF fragment.hasIndex THEN fragment.index ELSE 0

SeenIndices ==
    LET fs == DeltaFragments(recvd) IN {IndexOf(fs[i]) : i \in 1..Len(fs)}

\* The elements of a finite set of integers in strictly ascending order.
Ascending(S) ==
    CHOOSE seq \in [1..Cardinality(S) -> S] :
        \A i, j \in 1..Cardinality(S) : i < j => seq[i] < seq[j]

\* The fragments received for one index, in arrival order.
FragmentsOf(idx) ==
    SelectSeq(DeltaFragments(recvd), LAMBDA f : IndexOf(f) = idx)

\* The last non-empty id (name) among fragments, "" when there is none.
RECURSIVE LastID(_)
LastID(fs) ==
    IF fs = <<>> THEN ""
    ELSE IF fs[Len(fs)].id # "" THEN fs[Len(fs)].id
         ELSE LastID(SubSeq(fs, 1, Len(fs) - 1))

RECURSIVE LastName(_)
LastName(fs) ==
    IF fs = <<>> THEN ""
    ELSE IF fs[Len(fs)].name # "" THEN fs[Len(fs)].name
         ELSE LastName(SubSeq(fs, 1, Len(fs) - 1))

\* The argument pieces of fragments, concatenated in arrival order.
RECURSIVE ConcatArgs(_)
ConcatArgs(fs) ==
    IF fs = <<>> THEN <<>> ELSE Head(fs).args \o ConcatArgs(Tail(fs))

IsPrefix(s, t) == Len(s) <= Len(t) /\ SubSeq(t, 1, Len(s)) = s

\* The function-call parts of the last yielded element.
LastFunctionCalls == SelectSeq(LastParts, IsFunctionCallPart)

\* C4: the final response has exactly one function-call part per distinct
\* tool-call index seen in the stream, the parts stand in strictly ascending
\* index order (whatever order the indices arrived in and whatever order the
\* map keys were visited in), and every function-call part comes after every
\* text part.
C4_FunctionCallsAscendingAfterText ==
    EndedAtEOF =>
        LET asc == Ascending(SeenIndices)
        IN  /\ DOMAIN toolCallsMap = SeenIndices
            /\ Len(LastFunctionCalls) = Cardinality(SeenIndices)
            /\ \A k \in 1..Len(LastFunctionCalls) :
                  /\ LastFunctionCalls[k].id = toolCallsMap[asc[k]].id
                  /\ LastFunctionCalls[k].name = toolCallsMap[asc[k]].name
                  /\ LastFunctionCalls[k].args = parseJSONArgs(toolCallsMap[asc[k]].args)
            /\ \A i, j \in 1..Len(LastParts) :
                  (i < j /\ IsFunctionCallPart(LastParts[i])) => ~IsTextPart(LastParts[j])

C4_Witness ==
    /\ EndedAtEOF
    /\ Len(recvd) = 3
    /\ DeltaFragments(SubSeq(recvd, 1, 1)) = <<OpenFragment(1)>>
    /\ DeltaText(recvd[2]) = "Hel"
    /\ DeltaFragments(SubSeq(recvd, 3, 3)) = <<OpenFragment(0)>>
    /\ Len(LastParts) = 3
    /\ LastParts[1].text = "Hel"
    /\ LastParts[2].id = "call_123"
    /\ LastParts[3].id = "call_456"

\* C5: in every step, every accumulator entry stays in the map; an id (name)
\* that is non-empty stays non-empty, and changes only to the non-empty id
\* (name) of a fragment received for that index in that step; args only grows
\* by appending, the old value being a prefix of the new one.
C5_AccumulatorMonotone ==
    [][\A idx \in DOMAIN toolCallsMap :
          /\ idx \in DOMAIN toolCallsMap'
          /\ LET old == toolCallsMap[idx]
                 new == toolCallsMap'[idx]
                 fs == IF recvd' = recvd
                       THEN <<>>
                       ELSE DeltaFragments(<<recvd'[Len(recvd')]>>)
                 sent == {i \in 1..Len(fs) : IndexOf(fs[i]) = idx}
             IN  /\ old.id # "" => new.id # ""
                 /\ new.id # old.id => (new.id # "" /\ \E i \in sent : fs[i].id = new.id)
                 /\ old.name # "" => new.name # ""
                 /\ new.name # old.name =>
                        (new.name # "" /\ \E i \in sent : fs[i].name = new.name)
                 /\ IsPrefix(old.args, new.args)]_vars

C5_Witness ==
    /\ pc = "recv"
    /\ DeltaFragments(recvd) = <<OpenFragment(0), ValueFragment(0), NoIndexFragment>>
    /\ toolCallsMap[0] = [id |-> "call_new", name |-> "get_time",
                          args |-> <<"{", "\"location\":", "\"Paris\"">>]

\* C6: for every index seen, the final response's function-call part for that
\* index has the id and the name the fragments of that index delivered (the
\* last non-empty one) and args equal to the parse of the concatenation, in
\* arrival order, of the argument pieces of those fragments.
C6_SplitToolCallReassembled ==
    EndedAtEOF =>
        LET asc == Ascending(SeenIndices)
        IN  /\ Len(LastFunctionCalls) = Cardinality(SeenIndices)
            /\ \A k \in 1..Len(LastFunctionCalls) :
                  LET fs == FragmentsOf(asc[k])
                  IN  /\ LastFunctionCalls[k].id = LastID(fs)
                      /\ LastFunctionCalls[k].name = LastName(fs)
                      /\ LastFunctionCalls[k].args = parseJSONArgs(ConcatArgs(fs))

C6_Witness ==
    /\ EndedAtEOF
    /\ DeltaFragments(recvd) = <<OpenFragment(0), ValueFragment(0), CloseFragment(0)>>
    /\ Len(recvd) = 3
    /\ LastParts = <<[kind |-> "functionCall", text |-> "", id |-> "call_123",
                      name |-> "get_weather", args |-> ("location" :> "Paris")]>>

-----------------------------------------------------------------------------
(* Resource release and errors *)

\* C7: the stream is closed exactly once on every exit path after it was
\* opened (end of stream, a transport error from Recv, the consumer stopping
\* after a partial response): Close is never called twice, never before the
\* body returns, never on a stream that was not opened, and no returned
\* execution leaves an opened stream unclosed.
C7_StreamClosedExactlyOnce ==
    /\ closeCalls <= 1
    /\ pc # "returned" => closeCalls = 0
    /\ ~streamOpened => closeCalls = 0
    /\ (pc = "returned" /\ streamOpened) =>
          (closeCalls = 1 /\ exitPath \in {"eof", "recvErr", "stopped"})

C7_Witness ==
    /\ pc = "returned"
    /\ exitPath = "stopped"
    /\ streamOpened
    /\ closeCalls = 1
    /\ Len(recvd) = 2

\* C8: when Recv returns an error other than end-of-stream the body yields
\* one element, nil response with that same error, and returns: it is the last
\* element, no final response was emitted, the elements before it are exactly
\* the partial responses of the chunks received before, and the loop is left
\* (no state has a non-EOF Recv error and the loop still running).
C8_RecvErrorEndsSequence ==
    /\ (recvErr # "" /\ ~IsEOF(recvErr)) => (pc = "returned" /\ exitPath = "recvErr")
    /\ (pc = "returned" /\ exitPath = "recvErr") =>
        LET texts == DeltaTexts(recvd)
        IN  /\ recvErr # "" /\ ~IsEOF(recvErr)
            /\ Len(out) = Len(texts) + 1
            /\ out[Len(out)].isNil
            /\ out[Len(out)].err = recvErr
            /\ \A i \in 1..Len(texts) : out[i] = ExpectedPartial(texts[i])
            /\ \A i \in 1..Len(out) : ~IsFinal(out[i])

C8_Witness ==
    /\ pc = "returned"
    /\ exitPath = "recvErr"
    /\ recvErr = "connection reset"
    /\ Len(recvd) = 3
    /\ Len(out) = 3
    /\ IsPartial(out[1]) /\ IsPartial(out[2])
    /\ out[3].isNil /\ out[3].err = "connection reset"

-----------------------------------------------------------------------------
(* Usage and finish reason of the final response *)

\* The usage and finish reason of the last yielded element.
LastUsage == out[Len(out)].resp.usage
LastFinishReason == out[Len(out)].resp.finishReason

\* The largest element of a non-empty finite set of integers.
Max(S) == CHOOSE x \in S : \A y \in S : y <= x

\* The token counts of a chunk's usage as the response carries them (int32).
CountsOf(chunk) ==
    [present |-> TRUE,
     prompt |-> Int32(chunk.usage.prompt),
     completion |-> Int32(chunk.usage.completion),
     total |-> Int32(chunk.usage.total),
     cached |-> 0]

\* C9 as claimed: the final response carries the token counts of the last
\* chunk of the stream on which usage was present, and nil usage only if no
\* chunk of the stream had usage present.
C9_UsageOfLastChunkWithUsage ==
    EndedAtEOF =>
        LET withUsage == {i \in 1..Len(recvd) : recvd[i].usage.present}
        IN  IF withUsage = {}
            THEN ~LastUsage.present
            ELSE LastUsage = CountsOf(recvd[Max(withUsage)])

\* C9 as amended: the final response carries the token counts (converted to
\* int32) of the last chunk that has at least one choice and on which usage
\* was present, and nil usage exactly if the stream had no such chunk; usage
\* on a chunk without choices is not read.
C9_UsageOfLastChunkWithChoicesAndUsage ==
    EndedAtEOF =>
        LET withUsage == {i \in 1..Len(recvd) :
                             recvd[i].choices # <<>> /\ recvd[i].usage.present}
        IN  IF withUsage = {}
            THEN ~LastUsage.present
            ELSE LastUsage = CountsOf(recvd[Max(withUsage)])

C9_Witness ==
    /\ EndedAtEOF
    /\ Len(recvd) = 3
    /\ recvd[1].usage = WireUsage(SmallInt(10), SmallInt(8), SmallInt(18))
    /\ recvd[2].usage = WireUsage(WireInt(1, 0), SmallInt(1), WireInt(1, 1))
    /\ recvd[3] = Chunk(<<>>, WireUsage(SmallInt(7), SmallInt(5), SmallInt(12)))
    /\ LastUsage = [present |-> TRUE, prompt |-> (0 - MaxInt32) - 1, completion |-> 1,
                    total |-> 0 - MaxInt32, cached |-> 0]

\* The non-empty finish reasons of the first choices of a chunk sequence, in
\* arrival order.
RECURSIVE DeltaFinishReasons(_)
DeltaFinishReasons(chunks) ==
    IF chunks = <<>>
    THEN <<>>
    ELSE (IF Head(chunks).choices # <<>> /\ Head(chunks).choices[1].finishReason # ""
          THEN <<Head(chunks).choices[1].finishReason>>
          ELSE <<>>) \o DeltaFinishReasons(Tail(chunks))

\* C10: the final response carries the mapped value of the finish reason of
\* the last chunk whose first choice had a non-empty finish reason, and
\* Unspecified if no chunk reported a finish reason.
C10_FinishReasonLastOrUnspecified ==
    EndedAtEOF =>
        LET reasons == DeltaFinishReasons(recvd)
        IN  LastFinishReason =
                IF reasons = <<>>
                THEN FinishReasonUnspecified
                ELSE convertFinishReason(reasons[Len(reasons)])

-----------------------------------------------------------------------------
(* Claims about the conversion functions and the non-streaming path *)

\* The conversion function op has been called and has returned.
Returned(op) == convOp = op /\ convOut # <<>>

\* C11: convertChatCompletionResponse returns ErrNoChoicesInResponse together
\* with a nil response exactly when the response's choices list is empty; for
\* every response with at least one choice it returns a non-nil response and
\* no error.
C11_NoChoicesErrorIffEmptyChoices ==
    Returned("convertChatCompletionResponse") =>
        IF Len(convIn.choices) = 0
        THEN convOut[1].isNil /\ convOut[1].err = ErrNoChoicesInResponse
        ELSE ~convOut[1].isNil /\ convOut[1].err = ""

C11_Witness ==
    /\ Returned("convertChatCompletionResponse")
    /\ convIn.choices = <<>>
    /\ convIn.usage.total = SmallInt(18)
    /\ convOut[1].isNil
    /\ convOut[1].err = "no choices in OpenAI response"

\* The call of GenerateContent under way is a generate call.
Generating == ~stream /\ convOp = "" /\ runs = <<>>

NewlineJoined(parts) ==
    LET texts == SelectSeq(parts, LAMBDA part : part.text # "")
    IN  [i \in 1..(2 * Len(texts) - 1) |->
            IF i % 2 = 1 THEN texts[(i + 1) \div 2].text ELSE "\n"]

\* C13: toOpenAIChatCompletionRequest outputs the converted messages in the
\* order of the input contents; with a system instruction there is exactly one
\* more message than contents, the first has role system and as content the
\* instruction's non-empty text parts joined by newline, and the converted
\* contents follow it unchanged and in order; without one the message count
\* equals the content count.
C13_MessagesInOrderAfterSystemMessage ==
    (Returned("toOpenAIChatCompletionRequest") /\ convOut[1].err = "") =>
        LET contents == convIn.contents
            messages == convOut[1].req.messages
            hasInstruction == convIn.config.present
                              /\ convIn.config.systemInstruction.present
            shift == IF hasInstruction THEN 1 ELSE 0
        IN  /\ Len(messages) = Len(contents) + shift
            /\ hasInstruction =>
                /\ messages[1].role = "system"
                /\ messages[1].content =
                       NewlineJoined(convIn.config.systemInstruction.parts)
            /\ \A i \in 1..Len(contents) :
                   messages[i + shift] = toOpenAIChatCompletionMessage(contents[i]).msg

C13_Witness ==
    /\ Returned("toOpenAIChatCompletionRequest")
    /\ convIn.contents = <<CallContent, HelloContent>>
    /\ Len(convIn.config.systemInstruction.parts) = 4
    /\ Len(convOut[1].req.messages) = 3
    /\ convOut[1].req.messages[1].role = "system"
    /\ convOut[1].req.messages[1].content = <<"Be brief", "\n", "Use tools">>
    /\ convOut[1].req.messages[2].role = "assistant"
    /\ convOut[1].req.messages[2].toolCalls[1].id = "call_123"
    /\ convOut[1].req.messages[3].content = <<"Hello">>

\* The positions of the content entries of the request whose conversion fails.
FailingEntries ==
    {i \in 1..Len(llmRequest.contents) :
        toOpenAIChatCompletionMessage(llmRequest.contents[i]).err # ""}

\* The least element of a non-empty finite set of integers.
Min(S) == CHOOSE x \in S : \A y \in S : x <= y

\* C14: when the conversion of a content entry fails,
\* toOpenAIChatCompletionRequest returns the error of the first failing entry
\* with the zero request, and neither generate nor generateStream invokes the
\* transport: each yields that one error element and ends.
C14_FirstFailingEntryAbortsBuild ==
    (convOp = "" /\ runs = <<>> /\ FailingEntries # {}) =>
        LET firstErr ==
                toOpenAIChatCompletionMessage(
                    llmRequest.contents[Min(FailingEntries)]).err
        IN  /\ Built.err = firstErr
            /\ Built.req = ZeroRequest
            /\ transportCalls = 0
            /\ ~streamOpened
            /\ wireResp = <<>>
            /\ pc \in {"start", "returned"}
            /\ pc = "start" => out = <<>>
            /\ pc = "returned" =>
                /\ Len(out) = 1
                /\ out[1].isNil
                /\ out[1].err = firstErr

C14_Witness ==
    /\ stream
    /\ llmRequest.contents = <<BadResponseContent, BadArgsContent>>
    /\ pc = "returned"
    /\ exitPath = "buildErr"
    /\ transportCalls = 0
    /\ out = <<YieldErr("failed to marshal function response")>>

\* C15 as claimed: for every input content, the wire message produced by
\* toOpenAIChatCompletionMessage retains only one content representation: it
\* never has both a non-empty scalar content and a non-empty multi-content
\* list.
C15_OneContentRepresentation ==
    (Returned("toOpenAIChatCompletionMessage") /\ convOut[1].err = "") =>
        ~(convOut[1].msg.content # <<>> /\ convOut[1].msg.multiContent # <<>>)

\* The part of C15 that holds: a text part never puts both a scalar content
\* and a multi-content list in a message without a function response.
C15_TextAloneGivesOneRepresentation ==
    (/\ Returned("toOpenAIChatCompletionMessage")
     /\ convOut[1].err = ""
     /\ \A i \in 1..Len(convIn.parts) : ~convIn.parts[i].functionResponse.present) =>
        ~(convOut[1].msg.content # <<>> /\ convOut[1].msg.multiContent # <<>>)

\* The positions of the function-response parts of the converted content.
ResponsePositions ==
    {i \in 1..Len(convIn.parts) : convIn.parts[i].functionResponse.present}

\* C16: for a content containing a function-response part,
\* toOpenAIChatCompletionMessage produces a message whose role is "tool"
\* whatever the content's role, whose tool-call-id is the response's id, and
\* whose scalar content is JSON that parses back to the response mapping.
C16_FunctionResponseBecomesToolMessage ==
    (/\ Returned("toOpenAIChatCompletionMessage")
     /\ convOut[1].err = ""
     /\ ResponsePositions # {}) =>
        /\ convOut[1].msg.role = "tool"
        /\ \E i \in ResponsePositions :
            /\ convOut[1].msg.toolCallID = convIn.parts[i].functionResponse.id
            /\ parseJSONArgs(convOut[1].msg.content) =
                   convIn.parts[i].functionResponse.response

C16_Witness ==
    /\ Returned("toOpenAIChatCompletionMessage")
    /\ convIn = Content("model", <<ResponseReqPart("call_456", "get_weather", TwoKeyArgs)>>)
    /\ convOut[1].err = ""
    /\ convOut[1].msg.role = "tool"
    /\ convOut[1].msg.toolCallID = "call_456"
    /\ convOut[1].msg.content =
           <<"{", "\"location\":", "\"Rome\"", ",", "\"unit\":", "\"Paris\"", "}">>

\* The text is a JSON object of string members, or null: what json.Unmarshal
\* accepts for a map[string]any.
WellFormedArgs(text) ==
    \/ text = <<"null">>
    \/ /\ Len(text) >= 2
       /\ text[1] = LBrace
       /\ text[Len(text)] = RBrace
       /\ Len(text) = 2 \/ Len(text) % 3 = 1
       /\ \A i \in 2..(Len(text) - 1) :
            /\ i % 3 = 2 => text[i] \in KeyTokens
            /\ i % 3 = 0 => text[i] \in ValueTokens
            /\ i % 3 = 1 => text[i] = Comma

\* Malformed or empty argument text.
MalformedOrEmpty(text) == text = <<>> \/ ~WellFormedArgs(text)

\* The tool calls of function type of the first choice of the response
\* CreateChatCompletion returned.
FunctionToolCalls ==
    SelectSeq(wireResp[1].choices[1].toolCalls, LAMBDA t : t.type = "function")

\* C17: malformed or empty tool-call argument text never aborts a conversion:
\* convertChatCompletionResponse (in generate) still returns a response and
\* generateStream still emits its final response at end of stream, each with
\* an empty non-nil args mapping for that function call and with the other
\* parts (text, ids, names, number of parts) intact.
C17_MalformedArgsGiveEmptyMapping ==
    /\ (Generating /\ pc = "returned" /\ wireResp # <<>>
        /\ wireResp[1].choices # <<>>) =>
          LET content == wireResp[1].choices[1].content
              shift == IF content # "" THEN 1 ELSE 0
          IN  /\ IsFinal(out[1])
              /\ out[1].err = ""
              /\ Len(LastParts) = shift + Len(FunctionToolCalls)
              /\ shift = 1 => IsTextPart(LastParts[1]) /\ LastParts[1].text = content
              /\ \A k \in 1..Len(FunctionToolCalls) :
                    /\ IsFunctionCallPart(LastParts[shift + k])
                    /\ LastParts[shift + k].id = FunctionToolCalls[k].id
                    /\ LastParts[shift + k].name = FunctionToolCalls[k].name
                    /\ MalformedOrEmpty(FunctionToolCalls[k].arguments) =>
                           LastParts[shift + k].args = EmptyMap
    /\ (stream /\ EndedAtEOF) =>
          LET asc == Ascending(SeenIndices)
              texts == DeltaTexts(recvd)
          IN  /\ IsFinal(out[Len(out)])
              /\ Len(LastParts) = Len(texts) + Cardinality(SeenIndices)
              /\ \A i \in 1..Len(texts) :
                    IsTextPart(LastParts[i]) /\ LastParts[i].text = texts[i]
              /\ \A k \in 1..Cardinality(SeenIndices) :
                    /\ LastFunctionCalls[k].id = LastID(FragmentsOf(asc[k]))
                    /\ LastFunctionCalls[k].name = LastName(FragmentsOf(asc[k]))
                    /\ MalformedOrEmpty(ConcatArgs(FragmentsOf(asc[k]))) =>
                           LastFunctionCalls[k].args = EmptyMap

C17_Witness ==
    /\ Generating
    /\ pc = "returned"
    /\ wireResp # <<>>
    /\ wireResp[1].choices # <<>>
    /\ wireResp[1].choices[1].content = "Hello"
    /\ wireResp[1].choices[1].toolCalls =
           <<RespToolCall("call_5", "function", "get_weather",
                          <<LBrace, "\"location\":">>),
             RespToolCall("call_1", "function", "get_weather", GoodArguments)>>
    /\ LastParts =
           <<TextPart("Hello"),
             [kind |-> "functionCall", text |-> "", id |-> "call_5",
              name |-> "get_weather", args |-> EmptyMap],
             [kind |-> "functionCall", text |-> "", id |-> "call_1",
              name |-> "get_weather", args |-> ("location" :> "Paris")]>>

\* The stream case of C17: a tool call whose argument text was cut short and
\* one that had none.
C17_StreamCase ==
    /\ stream
    /\ EndedAtEOF
    /\ DeltaFragments(recvd) = <<OpenFragment(0), NoIndexFragment, OpenFragment(1)>>
    /\ LastFunctionCalls[1].args = EmptyMap
    /\ LastFunctionCalls[2].args = EmptyMap
    /\ LastFunctionCalls[2].id = CallID(1)

\* C18: convertChatCompletionResponse builds the content from the first
\* choice only: role "model", one text part first if and only if the message's
\* scalar content is non-empty, then one function-call part per tool call of
\* function type, in the tool calls' order, with id and name copied; tool
\* calls of another type add no part, and later choices never affect the
\* result.
C18_ContentFromFirstChoiceOnly ==
    (Returned("convertChatCompletionResponse") /\ convIn.choices # <<>>) =>
        LET first == convIn.choices[1]
            calls == SelectSeq(first.toolCalls, LAMBDA t : t.type = "function")
            parts == convOut[1].resp.parts
            shift == IF first.content # "" THEN 1 ELSE 0
        IN  /\ convOut[1].resp.role = "model"
            /\ Len(parts) = shift + Len(calls)
            /\ shift = 1 => IsTextPart(parts[1]) /\ parts[1].text = first.content
            /\ \A k \in 1..Len(calls) :
                  /\ IsFunctionCallPart(parts[shift + k])
                  /\ parts[shift + k].id = calls[k].id
                  /\ parts[shift + k].name = calls[k].name
            /\ convOut[1] =
                   convertChatCompletionResponse(Response(<<first>>, convIn.usage))

C18_Witness ==
    /\ Returned("convertChatCompletionResponse")
    /\ Len(convIn.choices) = 2
    /\ convIn.choices[1].content = "Hello"
    /\ convIn.choices[1].toolCalls =
           <<RespToolCall("call_4", "custom", "grammar_tool", GoodArguments),
             RespToolCall("call_2", "function", "get_time", <<>>)>>
    /\ convIn.choices[2].content = "Other"
    /\ convOut[1].resp.parts =
           <<TextPart("Hello"),
             [kind |-> "functionCall", text |-> "", id |-> "call_2",
              name |-> "get_time", args |-> EmptyMap]>>

\* The function declarations of the non-nil tools of a list, tool by tool.
RECURSIVE Declarations(_)
Declarations(tools) ==
    IF tools = <<>>
    THEN <<>>
    ELSE (IF Head(tools).isNil THEN <<>> ELSE Head(tools).decls)
         \o Declarations(Tail(tools))

RECURSIVE AloneState(_)
AloneState(chunks) ==
    IF chunks = <<>>
    THEN NewState
    ELSE AggregateChunk(AloneState(SubSeq(chunks, 1, Len(chunks) - 1)),
                        chunks[Len(chunks)])

\* The partial responses a call that runs alone yields for chunks.
RECURSIVE AlonePartials(_)
AlonePartials(chunks) ==
    IF chunks = <<>>
    THEN <<>>
    ELSE AlonePartials(SubSeq(chunks, 1, Len(chunks) - 1))
         \o (IF DeltaText(chunks[Len(chunks)]) # ""
             THEN <<YieldResp(PartialResponse(<<TextPart(DeltaText(chunks[Len(chunks)]))>>))>>
             ELSE <<>>)

\* All that a call running alone yields on chunks when it ends by exitPath.
AloneOut(chunks, exit) ==
    AlonePartials(chunks)
    \o (CASE exit = "eof" ->
                <<FinalOf(AloneState(chunks),
                          CHOOSE order \in KeyOrders(AloneState(chunks).toolCallsMap) : TRUE)>>
          [] exit = "recvErr" -> <<YieldErr("connection reset")>>
          [] OTHER -> <<>>)

\* C19: when two streaming aggregations run concurrently on the same
\* OpenAIModel, under every interleaving of their chunk deliveries each one
\* emits the sequence of responses it emits when it runs alone on its own
\* chunk sequence, and while it receives, its accumulator, text aggregate,
\* finish reason and usage are those of its own chunks only.
C19_ConcurrentStreamsIndependent ==
    runs # <<>> =>
        \A s \in Streams :
            /\ runs[s].out = AloneOut(runs[s].recvd, runs[s].exitPath)
            /\ runs[s].pc = "recv" =>
                   s \in DOMAIN heap /\ heap[s] = AloneState(runs[s].recvd)

C19_Witness ==
    /\ runs # <<>>
    /\ runs[1].exitPath = "eof"
    /\ runs[2].exitPath = "eof"
    /\ runs[1].recvd = <<Chunk(<<Choice("Hel", <<>>, "")>>, NoWireUsage),
                         Chunk(<<Choice("", <<OpenFragment(0)>>, "")>>, NoWireUsage)>>
    /\ runs[2].recvd = <<Chunk(<<Choice("", <<NoIndexFragment>>, "tool_calls")>>,
                               NoWireUsage),
                         Chunk(<<Choice("lo", <<>>, "stop")>>,
                               WireUsage(SmallInt(10), SmallInt(8), SmallInt(18)))>>
    /\ Len(runs[1].out) = 2
    /\ runs[1].out[2].resp.parts[2].id = CallID(0)
    /\ runs[1].out[2].resp.usage = NoUsage
    /\ runs[2].out[2].resp.parts[2].id = "call_new"
    /\ runs[2].out[2].resp.finishReason = FinishReasonStop

-----------------------------------------------------------------------------
(* Claims about the finish reason table, skipped chunks, early stops and
   contents with several function responses *)

GenaiFinishReasons ==
    {FinishReasonStop, FinishReasonMaxTokens, FinishReasonSafety,
     FinishReasonUnspecified}

\* C21: convertFinishReason is total: it gives a result for every string, and
\* the result is Stop for "stop", MaxTokens for "length", Stop for "tool_calls"
\* and for "function_call", Safety for "content_filter", and Unspecified for
\* every other string, the empty string included.
C21_FinishReasonTable ==
    Returned("convertFinishReason") =>
        /\ convOut[1] \in GenaiFinishReasons
        /\ convIn = "stop" => convOut[1] = "STOP"
        /\ convIn = "length" => convOut[1] = "MAX_TOKENS"
        /\ convIn = "tool_calls" => convOut[1] = "STOP"
        /\ convIn = "function_call" => convOut[1] = "STOP"
        /\ convIn = "content_filter" => convOut[1] = "SAFETY"
        /\ convIn \notin {"stop", "length", "tool_calls", "function_call",
                          "content_filter"}
              => convOut[1] = "FINISH_REASON_UNSPECIFIED"

\* convertFinishReason has returned for "function_call".
C21_Witness ==
    /\ Returned("convertFinishReason")
    /\ convIn = "function_call"
    /\ convOut[1] = FinishReasonStop

\* The step receives a chunk.
Receives == Len(recvd') = Len(recvd) + 1
LastChunk(chunks) == chunks[Len(chunks)]

\* C22: in generateStream, the step that receives a chunk with an empty
\* choices list leaves the text aggregate, the tool-call accumulator, the
\* stored finish reason and the stored usage unchanged, emits nothing and does
\* not end the stream (the stream stays open and the loop is at Recv again);
\* the chunk received right after a skipped chunk is treated as usual: its
\* text is appended and emitted as a partial response, its usage is stored.
C22_EmptyChoicesChunkIsSkipped ==
    [][/\ (Receives /\ LastChunk(recvd').choices = <<>>) =>
            /\ aggregatedParts' = aggregatedParts
            /\ toolCallsMap' = toolCallsMap
            /\ finishReason' = finishReason
            /\ usageMetadata' = usageMetadata
            /\ out' = out
            /\ pc' = "recv"
            /\ closeCalls' = closeCalls
       /\ (/\ Receives
           /\ recvd # <<>>
           /\ LastChunk(recvd).choices = <<>>
           /\ LastChunk(recvd').choices # <<>>) =>
            LET chunk == LastChunk(recvd')
                text == chunk.choices[1].content
            IN  /\ text # "" =>
                    /\ Len(out') = Len(out) + 1
                    /\ IsPartial(LastChunk(out'))
                    /\ aggregatedParts' = Append(aggregatedParts, TextPart(text))
                /\ text = "" => out' = out
                /\ (chunk.usage.present /\ pc' = "recv") => usageMetadata'.present
      ]_vars

\* A chunk with an empty choices list that carries usage was received while
\* text was aggregated, and a text chunk was received and emitted after it.
C22_Witness ==
    /\ Len(recvd) = 3
    /\ recvd[1].choices # <<>>
    /\ recvd[2].choices = <<>>
    /\ recvd[2].usage.present
    /\ recvd[3].choices # <<>>
    /\ recvd[3].choices[1].content # ""
    /\ Len(out) = 2
    /\ ~usageMetadata.present
    /\ pc = "recv"

\* yield returned false for a partial response.
ConsumerStopped == exitPath = "stopped"

\* C23: in generateStream, once yield has returned false for a partial
\* response the body has returned: that partial response, made from the last
\* chunk received, is the last element emitted, every element emitted is one
\* of the partial responses of the chunks received (no error element, no
\* final response), and from then on no step receives a chunk or emits an
\* element.
C23_NothingAfterConsumerStops ==
    /\ [](ConsumerStopped =>
            LET texts == DeltaTexts(recvd)
            IN  /\ pc = "returned"
                /\ recvd # <<>>
                /\ DeltaText(LastChunk(recvd)) # ""
                /\ out = [i \in 1..Len(texts) |-> ExpectedPartial(texts[i])]
                /\ \A i \in 1..Len(out) : IsPartial(out[i]) /\ ~IsFinal(out[i]))
    /\ [][ConsumerStopped => (recvd' = recvd /\ out' = out /\ ConsumerStopped')]_vars

\* The consumer stopped at the first partial response, with the bound on the
\* chunks not reached: further chunks, an error or end-of-stream could follow.
C23_Witness ==
    /\ ConsumerStopped
    /\ pc = "returned"
    /\ Len(recvd) = 1
    /\ Len(recvd) < MaxChunks
    /\ Len(out) = 1
    /\ IsPartial(out[1])

\* The converted content with the function responses before position last
\* taken out of their parts (the parts stay, so the number of parts is kept).
WithoutEarlierResponses(content, last) ==
    [content EXCEPT !.parts =
        [i \in 1..Len(content.parts) |->
            IF i < last
            THEN [content.parts[i] EXCEPT !.functionResponse = NoFunctionResponse]
            ELSE content.parts[i]]]

\* C24: when a content holds two or more function-response parts and
\* toOpenAIChatCompletionMessage returns without error, the one message it
\* returns has the tool-call-id of the last function-response part in part
\* order and a scalar content that is the JSON of that part's payload, and
\* the earlier function-response parts leave no trace: the message is the
\* one the same content gives when the earlier function responses are
\* absent, so no field holds an id or a payload of theirs.
C24_LastFunctionResponseWins ==
    (/\ Returned("toOpenAIChatCompletionMessage")
     /\ convOut[1].err = ""
     /\ Cardinality(ResponsePositions) >= 2) =>
        LET last == Max(ResponsePositions)
            response == convIn.parts[last].functionResponse
            msg == convOut[1].msg
        IN  /\ msg.role = "tool"
            /\ msg.toolCallID = response.id
            /\ parseJSONArgs(msg.content) = response.response
            /\ msg.content = Marshal(response.response)
            /\ convOut[1] =
                   toOpenAIChatCompletionMessage(WithoutEarlierResponses(convIn, last))
            /\ \A i \in ResponsePositions \ {last} :
                   LET earlier == convIn.parts[i].functionResponse
                   IN  /\ earlier.id # response.id => msg.toolCallID # earlier.id
                       /\ earlier.response # response.response =>
                              parseJSONArgs(msg.content) # earlier.response

\* A content of two function-response parts with different ids and payloads
\* was converted: the message carries the second part's id and payload.
C24_Witness ==
    /\ Returned("toOpenAIChatCompletionMessage")
    /\ convIn = Content("user", <<ResponseReqPart("call_123", "get_weather", GoodArgs),
                                  ResponseReqPart("call_456", "get_weather", TwoKeyArgs)>>)
    /\ convOut[1].err = ""
    /\ convOut[1].msg.toolCallID = "call_456"
    /\ convOut[1].msg.content =
           <<"{", "\"location\":", "\"Rome\"", ",", "\"unit\":", "\"Paris\"", "}">>

====
